---- MODULE Spec2Model ----
(***************************************************************************)
(* Query engine of realm-core: the predicate-tree builder (Query::group,   *)
(* end_group, Or, Not, add_node, between ...), the executor (Query::find,  *)
(* find_all, do_count, aggregate_internal, ParentNode::aggregate_local,    *)
(* ParentNode::find_first) and the predicate nodes whose code lives in     *)
(* query_engine.cpp (NotNode with its known-range cache, the indexed       *)
(* StringNode<Equal>).                                                     *)
(*                                                                         *)
(* size_t is modelled modulo SizeMod, int64_t as the interval              *)
(* LLONG_MIN..LLONG_MAX of IntBits bits.  Row indices are 0-based as in    *)
(* the source; TLA+ sequences are 1-based, hence the +1 in the accessors.  *)
(***************************************************************************)
EXTENDS Integers, Sequences, FiniteSets, TLC

VARIABLES
    rows,        \* the table: sequence of objects [key, a, n, s] in ObjKey order;
                 \* a is a nullable int column, n an int column, s a string column
    indexed,     \* whether column s has a search index
    m_view,      \* NoView, or the key sequence of the view the query is bound to
    m_groups,    \* Query::m_groups, the group stack of the query under construction
    error_code,  \* Query::error_code
    last,        \* the most recent terminal call on the query and what it returned
    opA, opB,    \* operand queries of the operators !, &&, ||
    lhs, rhs,    \* queries produced by the operators, and their results
    built,       \* the builder call made last on the query, and the depth before it
    heap         \* the store of node objects of the queries held in opA and opB

vars == <<rows, indexed, m_view, m_groups, error_code, last, opA, opB, lhs, rhs, built,
          heap>>

-----------------------------------------------------------------------------
(* Bounds *)

MaxRows == 3          \* rows in the table
ClusterSize == 2      \* rows per cluster (cluster_node_size scaled down)
MaxNodes == 2         \* condition nodes in a query
MaxGroups == 2        \* depth of the group stack
IntBits == 3          \* width of the modelled int64_t
SizeMod == 64         \* size_t arithmetic is taken modulo SizeMod
findlocals == 1       \* local matches per best-node turn (scaled down)
probe_matches == 1    \* local matches per probe turn (scaled down)
bestdist == 3         \* probe window; larger than a cluster, as in the build

Pow2(n) == IF n = 0 THEN 1 ELSE IF n = 1 THEN 2 ELSE IF n = 2 THEN 4
           ELSE IF n = 3 THEN 8 ELSE IF n = 4 THEN 16 ELSE 32
LLONG_MAX == Pow2(IntBits - 1) - 1
LLONG_MIN == 0 - Pow2(IntBits - 1)

npos == SizeMod - 1
not_found == npos
null_key == 0 - 1
Null == LLONG_MIN - 1          \* the null cell of the nullable int column
NoView == [bound |-> FALSE, keys |-> <<>>]
View(keys) == [bound |-> TRUE, keys |-> keys]
NoCall == [op |-> "none"]

SzAdd(x, y) == (x + y) % SizeMod
SzSub(x, y) == (x - y + SizeMod) % SizeMod

Min2(x, y) == IF x < y THEN x ELSE y

\* an int64_t result of an addition, wrapped into the width of the type
Int64Wrap(x) == ((x - LLONG_MIN) % Pow2(IntBits)) + LLONG_MIN

\* the value e under the name the continuation F gives it
Bind(e, F(_)) == F(e)

-----------------------------------------------------------------------------
(* The table and its clusters *)

Table(r, ix) == [rows |-> r, indexed |-> ix]

TableSize(t) == Len(t.rows)

\* Table::get_object(size_t ndx).get_key()
KeyAtRow(t, ndx) == t.rows[ndx + 1].key

\* position of the object with this key
RowOfKey(t, key) == CHOOSE i \in 0..(TableSize(t) - 1) : t.rows[i + 1].key = key

\* The clusters in traversal order: cluster c holds the table rows
\* first .. first + n - 1.
Clusters(t) ==
    LET sz == TableSize(t)
        nc == (sz + ClusterSize - 1) \div ClusterSize
    IN [c \in 1..nc |->
           [first |-> (c - 1) * ClusterSize,
            n     |-> Min2(ClusterSize, sz - (c - 1) * ClusterSize)]]

ClusterOfRow(t, ndx) == Clusters(t)[(ndx \div ClusterSize) + 1]

\* Cluster::get_real_key(row)
get_real_key(t, cl, row) == t.rows[cl.first + row + 1].key

\* value of column col in row `row` of the cluster
LeafGet(t, cl, col, row) == t.rows[cl.first + row + 1][col]

-----------------------------------------------------------------------------
(* Predicate tree.  A unique_ptr<ParentNode> with its m_child chain is a    *)
(* sequence of nodes; the null pointer is the empty sequence.               *)

NullNode == <<>>

IntegerNode(cond, col, value) ==
    [kind |-> "IntegerNode", cond |-> cond, col |-> col, value |-> value]
StringNodeEqual(value) ==
    [kind |-> "StringNodeEqual", cond |-> "Equal", col |-> "s", value |-> value,
     m_needles |-> {}]
\* OrNode(std::unique_ptr<ParentNode> condition)
OrNode(condition) ==
    [kind |-> "OrNode",
     m_conditions |-> IF condition = NullNode THEN <<>> ELSE <<condition>>]
\* NotNode(std::unique_ptr<ParentNode> condition)
NotNode(condition) == [kind |-> "NotNode", m_condition |-> condition]

\* ParentNode::add_child: append to the end of the m_child chain
add_child(chain, node) == chain \o node

RECURSIVE NodeCount(_)
NodeCount(chain) ==
    IF chain = <<>> THEN 0
    ELSE LET h == Head(chain)
             RECURSIVE BranchCount(_)
             BranchCount(bs) == IF bs = <<>> THEN 0
                                ELSE NodeCount(Head(bs)) + BranchCount(Tail(bs))
             own == CASE h.kind = "OrNode" -> BranchCount(h.m_conditions)
                      [] h.kind = "NotNode" -> NodeCount(h.m_condition)
                      [] OTHER -> 1
         IN own + NodeCount(Tail(chain))

-----------------------------------------------------------------------------
(* Query builder.  A query value is [m_groups, error_code, m_view].        *)

QueryGroup == [m_root_node |-> NullNode, m_pending_not |-> FALSE, m_state |-> "Default"]

\* Query::create
create(view) == [m_groups |-> <<QueryGroup>>, error_code |-> "", m_view |-> view]

root_node(q) == IF Len(q.m_groups) = 0 THEN NullNode ELSE q.m_groups[1].m_root_node
has_conditions(q) == Len(q.m_groups) > 0 /\ q.m_groups[1].m_root_node # NullNode

\* Query::group
group(q) == [q EXCEPT !.m_groups = Append(@, QueryGroup)]

RECURSIVE add_node(_, _), handle_pending_not(_), end_group(_)

\* Query::add_node
add_node(q, node) ==
    LET n  == Len(q.m_groups)
        g  == q.m_groups[n]
        or_node == Head(g.m_root_node)
        nb == Len(or_node.m_conditions)
        g2 == CASE g.m_state = "OrCondition" ->
                     [g EXCEPT !.m_root_node =
                                   <<[or_node EXCEPT !.m_conditions = Append(@, node)]>>
                                   \o Tail(g.m_root_node),
                               !.m_state = "OrConditionChildren"]
                [] g.m_state = "OrConditionChildren" ->
                     [g EXCEPT !.m_root_node =
                                   <<[or_node EXCEPT !.m_conditions[nb] = add_child(@, node)]>>
                                   \o Tail(g.m_root_node)]
                [] OTHER ->
                     IF g.m_root_node = NullNode
                     THEN [g EXCEPT !.m_root_node = node]
                     ELSE [g EXCEPT !.m_root_node = add_child(@, node)]
    IN handle_pending_not([q EXCEPT !.m_groups[n] = g2])

\* a handle_pending_not that leaves the implicit group open
handle_pending_not_keeping_group(q) ==
    LET n == Len(q.m_groups)
        current_group == q.m_groups[n]
    IN IF n > 1 /\ current_group.m_pending_not
       THEN [q EXCEPT !.m_groups[n] =
                [current_group EXCEPT !.m_root_node = <<NotNode(@)>>,
                                      !.m_pending_not = FALSE]]
       ELSE q

\* Query::handle_pending_not
handle_pending_not(q) ==
    LET n == Len(q.m_groups)
        current_group == q.m_groups[n]
    IN IF n > 1 /\ current_group.m_pending_not
       THEN LET not_node == <<NotNode(current_group.m_root_node)>>
                q1 == [q EXCEPT !.m_groups[n] =
                          [current_group EXCEPT !.m_root_node = NullNode,
                                                !.m_pending_not = FALSE]]
            IN end_group(add_node(q1, not_node))
       ELSE q

\* an end_group that drops the conditions of the group it closes
end_group_dropping(q) ==
    IF Len(q.m_groups) < 2
    THEN [q EXCEPT !.error_code = "Unbalanced group"]
    ELSE handle_pending_not([q EXCEPT !.m_groups = SubSeq(@, 1, Len(@) - 1)])

\* Query::end_group
end_group(q) ==
    IF Len(q.m_groups) < 2
    THEN [q EXCEPT !.error_code = "Unbalanced group"]
    ELSE LET n == Len(q.m_groups)
             end_root_node == q.m_groups[n].m_root_node
             q1 == [q EXCEPT !.m_groups = SubSeq(@, 1, n - 1)]
             q2 == IF end_root_node # NullNode THEN add_node(q1, end_root_node) ELSE q1
         IN handle_pending_not(q2)

\* Query::Not
Not(q) ==
    LET q1 == group(q)
    IN [q1 EXCEPT !.m_groups[Len(q1.m_groups)].m_pending_not = TRUE]

\* an Or that wraps the root of the group in a new OrNode in every state
Or_nesting(q) ==
    LET n == Len(q.m_groups)
    IN [q EXCEPT !.m_groups[n].m_root_node = <<OrNode(@)>>,
                 !.m_groups[n].m_state = "OrCondition"]

\* Query::Or.  current_group is a reference taken before add_node; when
\* add_node pops that group (a pending Not was closed) the final store goes
\* to the popped element and changes no live group.
Or(q) ==
    LET n == Len(q.m_groups)
        current_group == q.m_groups[n]
        q1 == IF current_group.m_state # "OrConditionChildren"
              THEN add_node([q EXCEPT !.m_groups[n].m_root_node = NullNode],
                            <<OrNode(current_group.m_root_node)>>)
              ELSE q
    IN IF Len(q1.m_groups) >= n
       THEN [q1 EXCEPT !.m_groups[n].m_state = "OrCondition"]
       ELSE q1

\* Builder arguments carry their C++ type: int64_t or StringData
IntVal(v) == [type |-> "Int", v |-> v]
StrVal(v) == [type |-> "String", v |-> v]

\* make_condition_node: the node for <col> <cond> <value>; ok is FALSE when
\* MakeConditionNode<Node>::make throws type_mismatch
make_condition_node(cond, col, value) ==
    CASE col \in {"a", "n", "c"} /\ value.type = "Int" ->
             [ok |-> TRUE, node |-> <<IntegerNode(cond, col, value.v)>>]
      [] col = "s" /\ value.type = "String" /\ cond = "Equal" ->
             [ok |-> TRUE, node |-> <<StringNodeEqual(value.v)>>]
      [] OTHER -> [ok |-> FALSE, node |-> NullNode]

\* Query::add_condition; a throwing make_condition_node leaves the query as it is
add_condition(q, cond, col, value) ==
    LET made == make_condition_node(cond, col, value)
    IN IF made.ok THEN add_node(q, made.node) ELSE q

\* Query::equal / greater / less (int64_t and StringData)
equal(q, col, value) == add_condition(q, "Equal", col, value)
greater(q, col, value) == add_condition(q, "Greater", col, value)
less(q, col, value) == add_condition(q, "Less", col, value)

\* a greater_equal without the test for LLONG_MIN: value - 1 wraps around
greater_equal_wrapping(q, col, value) ==
    add_condition(q, "Greater", col,
                  IntVal(IF value > LLONG_MIN THEN value - 1 ELSE LLONG_MAX))

\* Query::greater_equal(ColKey, int64_t)
greater_equal(q, col, value) ==
    IF value > LLONG_MIN THEN add_condition(q, "Greater", col, IntVal(value - 1)) ELSE q

\* Query::less_equal(ColKey, int64_t)
less_equal(q, col, value) ==
    IF value < LLONG_MAX THEN add_condition(q, "Less", col, IntVal(value + 1)) ELSE q

\* throw_type_mismatch_error reached from make_condition_node
type_mismatch(cond, col, value) == ~make_condition_node(cond, col, value).ok

\* Query::greater_equal / less_equal throw when they reach add_condition
greater_equal_throws(col, value) ==
    value > LLONG_MIN /\ type_mismatch("Greater", col, IntVal(value - 1))
less_equal_throws(col, value) ==
    value < LLONG_MAX /\ type_mismatch("Less", col, IntVal(value + 1))
between_throws(col, from, to) ==
    greater_equal_throws(col, from) \/ less_equal_throws(col, to)

\* Query::between(ColKey, int64_t, int64_t); an exception leaves the group
\* that between opened on the stack
between(q, col, from, to) ==
    LET q1 == group(q)
        q2 == greater_equal(q1, col, from)
    IN IF greater_equal_throws(col, from) THEN q1
       ELSE IF less_equal_throws(col, to) THEN q2
       ELSE end_group(less_equal(q2, col, to))

\* Query::and_query(Query&&)
and_query(q, other) ==
    IF root_node(other) # NullNode THEN add_node(q, other.m_groups[1].m_root_node) ELSE q

\* an operator|| that leaves out the call of Or()
operator_or_without_Or(a, b) == and_query(and_query(create(NoView), a), b)

\* Query::operator||
operator_or(a, b) == and_query(Or(and_query(create(NoView), a)), b)

\* Query::operator&&
operator_and(a, b) ==
    IF root_node(a) = NullNode THEN b
    ELSE IF root_node(b) = NullNode THEN a
    ELSE and_query(and_query(create(NoView), a), b)

\* Query::operator!, called on a query that has a root node (it throws otherwise)
operator_not(a) == and_query(Not(create(NoView)), a)
\* Query::operator! throws "negation of empty query is not supported"
operator_not_throws(a) == root_node(a) = NullNode

RECURSIVE node_validate(_)
\* ParentNode::validate (virtual) along the m_child chain: the first error of
\* a node, "" when there is none
node_validate(chain) ==
    IF chain = <<>> THEN ""
    ELSE LET n == Head(chain)
             RECURSIVE Branches(_)
             Branches(bs) ==
                 IF bs = <<>> THEN ""
                 ELSE LET e == node_validate(Head(bs))
                      IN IF e # "" THEN e ELSE Branches(Tail(bs))
             own == CASE n.kind = "OrNode" ->
                           IF Len(n.m_conditions) = 0
                           THEN "Missing left-hand side of OR"
                           ELSE IF Len(n.m_conditions) = 1
                           THEN "Missing right-hand side of OR"
                           ELSE Branches(n.m_conditions)
                      [] n.kind = "NotNode" ->
                           IF n.m_condition = NullNode
                           THEN "Missing argument to Not"
                           ELSE node_validate(n.m_condition)
                      [] OTHER -> ""
         IN IF own # "" THEN own ELSE node_validate(Tail(chain))

RECURSIVE describe_expression(_)
\* ParentNode::describe_expression along the m_child chain, as the sequence
\* of the tokens of the infix text
describe_expression(chain) ==
    IF chain = <<>> THEN <<>>
    ELSE LET n == Head(chain)
             RECURSIVE Alternation(_)
             Alternation(bs) ==
                 IF bs = <<>> THEN <<>>
                 ELSE describe_expression(Head(bs))
                      \o (IF Len(bs) > 1 THEN <<"or">> ELSE <<>>) \o Alternation(Tail(bs))
             op == CASE n.cond = "Equal" -> "==" [] n.cond = "Greater" -> ">"
                     [] n.cond = "Less" -> "<"
             own == CASE n.kind = "OrNode" -> <<"(">> \o Alternation(n.m_conditions) \o <<")">>
                      [] n.kind = "NotNode" ->
                           <<"!", "(">> \o describe_expression(n.m_condition) \o <<")">>
                      [] OTHER -> <<n.col, op, ToString(n.value)>>
         IN own \o (IF Len(chain) > 1 THEN <<"and">> ELSE <<>>)
                \o describe_expression(Tail(chain))

\* Query::get_description: the text, or SerialisationError thrown
get_description(q) ==
    IF root_node(q) # NullNode
    THEN IF q.m_view.bound
         THEN [thrown |-> TRUE, ret |-> <<>>]
         ELSE [thrown |-> FALSE, ret |-> describe_expression(root_node(q))]
    ELSE [thrown |-> FALSE, ret |-> <<"TRUEPREDICATE">>]

\* a validate that looks at the tree before the recorded error
validate_tree_first(q) ==
    IF Len(q.m_groups) = 0 THEN ""
    ELSE IF root_node(q) = NullNode THEN "Syntax error"
    ELSE IF node_validate(root_node(q)) # "" THEN node_validate(root_node(q))
    ELSE q.error_code

\* Query::validate
validate(q) ==
    IF Len(q.m_groups) = 0 THEN ""
    ELSE IF q.error_code # "" THEN q.error_code
    ELSE IF root_node(q) = NullNode THEN "Syntax error"
    ELSE node_validate(root_node(q))

-----------------------------------------------------------------------------
(* Node state during execution: the statistics m_dD and m_dT, the NotNode  *)
(* known-range cache and the index cursor of StringNodeEqualBase.  m_dD is *)
(* the fraction <<numerator, denominator>>.                                *)

\* ParentNode::cost
cost_less(a, b) ==
    a.m_dT * a.m_dD[2] * b.m_dD[2] + a.m_dD[1] * b.m_dD[2]
        < b.m_dT * a.m_dD[2] * b.m_dD[2] + b.m_dD[1] * a.m_dD[2]

\* keys of the objects whose s equals value, in ObjKey order: what the search
\* index returns (StringIndex::find_all_no_copy)
index_find_all(t, value) ==
    LET RECURSIVE Collect(_)
        Collect(i) == IF i > TableSize(t) THEN <<>>
                      ELSE (IF t.rows[i].s = value THEN <<t.rows[i].key>> ELSE <<>>)
                           \o Collect(i + 1)
    IN Collect(1)

\* StringNodeEqualBase::get_key
get_key(n, ndx) ==
    IF ndx < Len(n.m_index_matches) THEN n.m_index_matches[ndx + 1] ELSE null_key

\* StringNode<Equal>::_search_index_init
search_index_init(n, t) ==
    LET res == index_find_all(t, n.value)
    IN [n EXCEPT !.m_last_start_key = null_key,
                 !.m_results_start = 0,
                 !.m_index_matches = res,
                 !.m_results_end = Len(res),
                 !.m_actual_key = IF Len(res) > 0 THEN res[1] ELSE null_key,
                 !.m_results_ndx = 0]

\* StringNodeEqualBase::init
StringNodeEqualBase_init(node, t) ==
    LET n == node @@ [m_dD |-> <<10, 1>>,
                      m_dT |-> IF t.indexed THEN 0 ELSE 10,
                      m_has_search_index |-> t.indexed,
                      m_index_matches |-> <<>>, m_results_start |-> 0,
                      m_results_end |-> 0, m_results_ndx |-> 0,
                      m_actual_key |-> null_key, m_last_start_key |-> null_key]
    IN IF n.m_has_search_index THEN search_index_init(n, t) ELSE n

\* a consume_condition that forgets the needles it already holds
consume_condition_replace(n, other) ==
    [n EXCEPT !.m_needles = {other.value}]

\* StringNode<Equal>::consume_condition
consume_condition(n, other) ==
    [n EXCEPT !.m_needles = (IF @ = {} THEN {n.value} ELSE @) \cup {other.value}]

\* OrNode::combine_conditions: on a column without a search index the
\* branches that are a single equal-string condition are consumed into the
\* first of them
combine_conditions(conds, t) ==
    LET Single(b) == Len(b) = 1 /\ b[1].kind = "StringNodeEqual"
        RECURSIVE Combine(_, _, _)
        Combine(i, first, out) ==
            IF i > Len(conds) THEN out
            ELSE IF ~Single(conds[i]) THEN Combine(i + 1, first, Append(out, conds[i]))
            ELSE IF first = 0 THEN Combine(i + 1, Len(out) + 1, Append(out, conds[i]))
            ELSE Combine(i + 1, first,
                         [out EXCEPT ![first] = <<consume_condition(@[1], conds[i][1])>>])
    IN IF t.indexed THEN conds ELSE Combine(1, 0, <<>>)

RECURSIVE init(_, _)
\* ParentNode::init on a chain: resets the statistics and caches of every node
init(chain, t) ==
    [i \in 1..Len(chain) |->
        LET n == chain[i]
        IN CASE n.kind = "IntegerNode" -> n @@ [m_dD |-> <<100, 1>>, m_dT |-> 10]
             [] n.kind = "StringNodeEqual" -> StringNodeEqualBase_init(n, t)
             [] n.kind = "OrNode" ->
                  [kind |-> "OrNode",
                   m_conditions |->
                       Bind(combine_conditions(n.m_conditions, t),
                            LAMBDA conds : [b \in 1..Len(conds) |-> init(conds[b], t)]),
                   m_dD |-> <<100, 1>>, m_dT |-> 50]
             [] n.kind = "NotNode" ->
                  [kind |-> "NotNode", m_condition |-> init(n.m_condition, t),
                   m_dD |-> <<100, 1>>, m_dT |-> 50,
                   m_known_range_start |-> 0, m_known_range_end |-> 0,
                   m_first_in_known_range |-> not_found]]

RECURSIVE set_cluster(_)
\* ParentNode::set_cluster / cluster_changed: the NotNode cache is per cluster
set_cluster(chain) ==
    [i \in 1..Len(chain) |->
        LET n == chain[i]
        IN CASE n.kind = "OrNode" ->
                  [n EXCEPT !.m_conditions = [b \in 1..Len(@) |-> set_cluster(@[b])]]
             [] n.kind = "NotNode" ->
                  [n EXCEPT !.m_condition = set_cluster(@),
                            !.m_known_range_start = 0, !.m_known_range_end = 0,
                            !.m_first_in_known_range = not_found]
             [] OTHER -> n]

RECURSIVE HasNullNot(_)
\* a NotNode over the null pointer: executing it dereferences null
HasNullNot(chain) ==
    \E i \in 1..Len(chain) :
        LET n == chain[i]
        IN CASE n.kind = "NotNode" -> n.m_condition = NullNode \/ HasNullNot(n.m_condition)
             [] n.kind = "OrNode" -> \E b \in 1..Len(n.m_conditions) : HasNullNot(n.m_conditions[b])
             [] OTHER -> FALSE

-----------------------------------------------------------------------------
(* Condition evaluation *)

\* the comparison functors on a leaf cell; a null cell matches none of them
CondHolds(cond, cell, value) ==
    CASE cond = "Equal"   -> cell = value
      [] cond = "Greater" -> cell # Null /\ cell > value
      [] cond = "Less"    -> cell # Null /\ cell < value

\* leaf find_first: first row in [start, end) of the cluster where the condition holds
LeafFindFirst(n, start, end, cl, t) ==
    LET hits == {i \in start..(Min2(end, cl.n) - 1) :
                    CondHolds(n.cond, LeafGet(t, cl, n.col, i), n.value)}
    IN IF hits = {} THEN not_found ELSE CHOOSE i \in hits : \A j \in hits : i <= j

\* Cluster::lower_bound_key: first row of the cluster whose key is not below key
lower_bound_key(t, cl, key) ==
    LET ge == {i \in 0..(cl.n - 1) : get_real_key(t, cl, i) >= key}
    IN IF ge = {} THEN cl.n ELSE CHOOSE i \in ge : \A j \in ge : i <= j

RECURSIVE AdvanceCursor(_, _)

\* a cursor that moves on by one result at most
AdvanceCursor_one_step(n, first_key) ==
    IF first_key > n.m_actual_key
    THEN LET ndx == n.m_results_ndx + 1
         IN IF ndx = n.m_results_end
            THEN [exhausted |-> TRUE, n |-> [n EXCEPT !.m_results_ndx = ndx]]
            ELSE [exhausted |-> FALSE,
                  n |-> [n EXCEPT !.m_results_ndx = ndx, !.m_actual_key = get_key(n, ndx)]]
    ELSE [exhausted |-> FALSE, n |-> n]

\* the while loop of StringNodeEqualBase::find_first_local that advances the
\* cursor to the first index result not below first_key
AdvanceCursor(n, first_key) ==
    IF first_key > n.m_actual_key
    THEN LET ndx == n.m_results_ndx + 1
         IN IF ndx = n.m_results_end
            THEN [exhausted |-> TRUE, n |-> [n EXCEPT !.m_results_ndx = ndx]]
            ELSE AdvanceCursor([n EXCEPT !.m_results_ndx = ndx,
                                         !.m_actual_key = get_key(n, ndx)], first_key)
    ELSE [exhausted |-> FALSE, n |-> n]

\* StringNode<Equal>::_find_first_local: the leaf search for m_value, or the
\* scan testing each element against the needles
StringNodeEqual_find_first_local(n, start, end0, cl, t) ==
    IF n.m_needles = {}
    THEN LeafFindFirst(n, start, end0, cl, t)
    ELSE LET end == IF end0 = npos THEN cl.n ELSE end0
             hits == {i \in start..(end - 1) : LeafGet(t, cl, n.col, i) \in n.m_needles}
         IN IF hits = {} THEN not_found ELSE CHOOSE i \in hits : \A j \in hits : i <= j

\* StringNodeEqualBase::find_first_local
StringNodeEqualBase_find_first_local(n, start, end, cl, t) ==
    IF n.m_has_search_index
    THEN IF start < end
         THEN LET first_key == get_real_key(t, cl, start)
                  n1 == IF first_key < n.m_last_start_key
                        THEN [n EXCEPT !.m_results_ndx = n.m_results_start,
                                       !.m_actual_key = get_key(n, n.m_results_start)]
                        ELSE n
                  n2 == [n1 EXCEPT !.m_last_start_key = first_key]
              IN IF n2.m_results_ndx < n2.m_results_end
                 THEN LET adv == AdvanceCursor(n2, first_key)
                          last_key == get_real_key(t, cl, end - 1)
                      IN IF adv.exhausted THEN [r |-> not_found, n |-> adv.n]
                         ELSE IF adv.n.m_actual_key > last_key
                              THEN [r |-> not_found, n |-> adv.n]
                              ELSE [r |-> lower_bound_key(t, cl, adv.n.m_actual_key),
                                    n |-> adv.n]
                 ELSE [r |-> not_found, n |-> n2]
         ELSE [r |-> not_found, n |-> n]
    ELSE [r |-> StringNodeEqual_find_first_local(n, start, end, cl, t), n |-> n]

RECURSIVE find_first_local(_, _, _, _, _), find_first(_, _, _, _, _),
          find_first_loop(_, _, _, _, _)

\* an evaluate_at that reports the condition itself, not its negation
evaluate_at_plain(n, rowndx, cl, t) ==
    Bind(find_first(n.m_condition, rowndx, SzAdd(rowndx, 1), cl, t),
         LAMBDA f : [b |-> (f.r # not_found), n |-> [n EXCEPT !.m_condition = f.c]])

\* NotNode::evaluate_at; n is the NotNode, the result carries its updated condition
evaluate_at(n, rowndx, cl, t) ==
    Bind(find_first(n.m_condition, rowndx, SzAdd(rowndx, 1), cl, t),
         LAMBDA f : [b |-> (f.r = not_found), n |-> [n EXCEPT !.m_condition = f.c]])

\* NotNode::update_known
update_known(n, start, end, first) ==
    [n EXCEPT !.m_known_range_start = start,
              !.m_known_range_end = end,
              !.m_first_in_known_range = first]

\* NotNode::find_first_loop
find_first_loop(n, start, end, cl, t) ==
    IF start < end
    THEN Bind(evaluate_at(n, start, cl, t),
              LAMBDA e : IF e.b THEN [r |-> start, n |-> e.n]
                         ELSE find_first_loop(e.n, start + 1, end, cl, t))
    ELSE [r |-> not_found, n |-> n]

\* NotNode::find_first_covers_known
find_first_covers_known(n, start, end, cl, t) ==
    Bind(find_first_loop(n, start, n.m_known_range_start, cl, t),
         LAMBDA f1 :
           IF f1.r # not_found
           THEN [r |-> f1.r, n |-> update_known(f1.n, start, n.m_known_range_end, f1.r)]
           ELSE IF n.m_first_in_known_range # not_found
                THEN [r |-> n.m_first_in_known_range,
                      n |-> update_known(f1.n, start, n.m_known_range_end,
                                         n.m_first_in_known_range)]
                ELSE Bind(find_first_loop(f1.n, n.m_known_range_end, end, cl, t),
                          LAMBDA f2 : [r |-> f2.r,
                                       n |-> update_known(f2.n, start, end, f2.r)]))

\* NotNode::find_first_covered_by_known
find_first_covered_by_known(n, start, end, cl, t) ==
    IF n.m_first_in_known_range # not_found /\ n.m_first_in_known_range > end
    THEN [r |-> not_found, n |-> n]
    ELSE IF n.m_first_in_known_range # not_found /\ n.m_first_in_known_range >= start
         THEN [r |-> n.m_first_in_known_range, n |-> n]
         ELSE find_first_loop(n, start, end, cl, t)

\* NotNode::find_first_overlap_lower
find_first_overlap_lower(n, start, end, cl, t) ==
    Bind(find_first_loop(n, start, n.m_known_range_start, cl, t),
         LAMBDA f1 :
           LET result == IF f1.r = not_found THEN n.m_first_in_known_range ELSE f1.r
           IN [r |-> IF result < end THEN result ELSE not_found,
               n |-> update_known(f1.n, start, n.m_known_range_end, result)])

\* NotNode::find_first_overlap_upper
find_first_overlap_upper(n, start, end, cl, t) ==
    IF n.m_first_in_known_range # not_found
    THEN IF n.m_first_in_known_range >= start
         THEN [r |-> n.m_first_in_known_range,
               n |-> update_known(n, n.m_known_range_start, end, n.m_first_in_known_range)]
         ELSE Bind(find_first_loop(n, start, end, cl, t),
                   LAMBDA f : [r |-> f.r,
                               n |-> update_known(f.n, n.m_known_range_start, end,
                                                  n.m_first_in_known_range)])
    ELSE Bind(find_first_loop(n, n.m_known_range_end, end, cl, t),
              LAMBDA f : [r |-> f.r,
                          n |-> update_known(f.n, n.m_known_range_start, end, f.r)])

\* a disjoint case that replaces the cache whatever the lengths are
find_first_no_overlap_replacing(n, start, end, cl, t) ==
    Bind(find_first_loop(n, start, end, cl, t),
         LAMBDA f : [r |-> f.r, n |-> update_known(f.n, start, end, f.r)])

\* NotNode::find_first_no_overlap
find_first_no_overlap(n, start, end, cl, t) ==
    Bind(find_first_loop(n, start, end, cl, t),
         LAMBDA f :
           IF SzSub(end, start) > SzSub(n.m_known_range_end, n.m_known_range_start)
           THEN [r |-> f.r, n |-> update_known(f.n, start, end, f.r)]
           ELSE f)

\* the REALM_ASSERT_DEBUG at the top of the handler `handler`
handler_assertion(handler, n, start, end) ==
    CASE handler = "covers_known" ->
             start <= n.m_known_range_start /\ end >= n.m_known_range_end
      [] handler = "covered_by_known" ->
             start >= n.m_known_range_start /\ end <= n.m_known_range_end
      [] handler = "overlap_lower" ->
             /\ start < n.m_known_range_start
             /\ end >= n.m_known_range_start /\ end <= n.m_known_range_end
      [] handler = "overlap_upper" ->
             /\ start <= n.m_known_range_end /\ start >= n.m_known_range_start
             /\ end > n.m_known_range_end
      [] handler = "no_overlap" ->
             \/ start < n.m_known_range_start /\ end < n.m_known_range_start
             \/ start > n.m_known_range_end /\ end > n.m_known_range_end

\* a dispatch that tries the upper overlap before the covered-by case
NotNode_handler_upper_first(n, start, end) ==
    IF start <= n.m_known_range_start /\ end >= n.m_known_range_end
    THEN "covers_known"
    ELSE IF start <= n.m_known_range_end /\ end >= n.m_known_range_end
    THEN "overlap_upper"
    ELSE IF start >= n.m_known_range_start /\ end <= n.m_known_range_end
    THEN "covered_by_known"
    ELSE IF start < n.m_known_range_start /\ end >= n.m_known_range_start
    THEN "overlap_lower"
    ELSE "no_overlap"

\* the if / else if chain of NotNode::find_first_local: the handler it calls
NotNode_handler(n, start, end) ==
    IF start <= n.m_known_range_start /\ end >= n.m_known_range_end
    THEN "covers_known"
    ELSE IF start >= n.m_known_range_start /\ end <= n.m_known_range_end
    THEN "covered_by_known"
    ELSE IF start < n.m_known_range_start /\ end >= n.m_known_range_start
    THEN "overlap_lower"
    ELSE IF start <= n.m_known_range_end /\ end > n.m_known_range_end
    THEN "overlap_upper"
    ELSE "no_overlap"

\* NotNode::find_first_local
NotNode_find_first_local(n, start, end, cl, t) ==
    LET handler == NotNode_handler(n, start, end)
    IN CASE handler = "covers_known" -> find_first_covers_known(n, start, end, cl, t)
         [] handler = "covered_by_known" -> find_first_covered_by_known(n, start, end, cl, t)
         [] handler = "overlap_lower" -> find_first_overlap_lower(n, start, end, cl, t)
         [] handler = "overlap_upper" -> find_first_overlap_upper(n, start, end, cl, t)
         [] handler = "no_overlap" -> find_first_no_overlap(n, start, end, cl, t)

\* OrNode::find_first_local: the smallest row at which a branch matches
OrNode_find_first_local(n, start, end, cl, t) ==
    LET RECURSIVE Branches(_, _, _)
        Branches(c, index, conds) ==
            IF c > Len(conds) THEN [r |-> index, n |-> [n EXCEPT !.m_conditions = conds]]
            ELSE Bind(find_first(conds[c], start, end, cl, t),
                      LAMBDA f : Branches(c + 1, Min2(index, f.r),
                                          [conds EXCEPT ![c] = f.c]))
    IN IF start >= end THEN [r |-> not_found, n |-> n]
       ELSE Branches(1, not_found, n.m_conditions)

\* ParentNode::find_first_local (virtual): r is the row, n the node afterwards
find_first_local(n, start, end, cl, t) ==
    CASE n.kind = "IntegerNode" -> [r |-> LeafFindFirst(n, start, end, cl, t), n |-> n]
      [] n.kind = "StringNodeEqual" -> StringNodeEqualBase_find_first_local(n, start, end, cl, t)
      [] n.kind = "OrNode" -> OrNode_find_first_local(n, start, end, cl, t)
      [] n.kind = "NotNode" -> NotNode_find_first_local(n, start, end, cl, t)

\* a find_first that does not test the other conditions again when a
\* condition moved the row forward
find_first_without_recheck(chain, start0, end, cl, t) ==
    LET sz == Len(chain)
        RECURSIVE Loop(_, _, _, _, _)
        Loop(start, current_cond, nb_cond_to_test, ch, calls) ==
            IF start < end
            THEN Bind(find_first_local(ch[current_cond + 1], start, end, cl, t),
                      LAMBDA f :
                        LET nb == nb_cond_to_test - 1
                            next == IF current_cond + 1 = sz THEN 0 ELSE current_cond + 1
                        IN IF nb = 0
                           THEN [r |-> f.r, c |-> [ch EXCEPT ![current_cond + 1] = f.n],
                                 calls |-> calls + 1]
                           ELSE Loop(f.r, next, nb, [ch EXCEPT ![current_cond + 1] = f.n],
                                     calls + 1))
            ELSE [r |-> not_found, c |-> ch, calls |-> calls]
    IN Loop(start0, 0, sz, chain, 0)

\* ParentNode::find_first on the head of a chain; m_children is the chain.
\* r is the row found, c the chain afterwards, calls the number of
\* find_first_local calls made.
find_first(chain, start0, end, cl, t) ==
    LET sz == Len(chain)
        RECURSIVE Loop(_, _, _, _, _)
        Loop(start, current_cond, nb_cond_to_test, ch, calls) ==
            IF start < end
            THEN Bind(find_first_local(ch[current_cond + 1], start, end, cl, t),
                      LAMBDA f :
                        LET nb == (IF f.r # start THEN sz ELSE nb_cond_to_test) - 1
                            next == IF current_cond + 1 = sz THEN 0 ELSE current_cond + 1
                        IN IF nb = 0
                           THEN [r |-> f.r, c |-> [ch EXCEPT ![current_cond + 1] = f.n],
                                 calls |-> calls + 1]
                           ELSE Loop(f.r, next, nb, [ch EXCEPT ![current_cond + 1] = f.n],
                                     calls + 1))
            ELSE [r |-> not_found, c |-> ch, calls |-> calls]
    IN Loop(start0, 0, sz, chain, 0)

\* a match that probes the first condition of the chain only
match_first_only(chain, t, key) ==
    LET ndx == RowOfKey(t, key)
        cl == ClusterOfRow(t, ndx)
        row == ndx - cl.first
    IN Bind(find_first(set_cluster(<<Head(chain)>>), row, row + 1, cl, t),
            LAMBDA f : [b |-> (f.r # npos), c |-> f.c \o Tail(chain)])

\* ParentNode::match: the callback of obj.evaluate binds the cluster of the
\* object and probes its row
match(chain, t, key) ==
    LET ndx == RowOfKey(t, key)
        cl == ClusterOfRow(t, ndx)
        row == ndx - cl.first
    IN Bind(find_first(set_cluster(chain), row, row + 1, cl, t),
            LAMBDA f : [b |-> (f.r # npos), c |-> f.c])

-----------------------------------------------------------------------------
(* Aggregate states and the scan executor *)

\* QueryState<int64_t>(act_FindAll, &keys, limit) / QueryStateCount(limit)
QueryState(action, limit) ==
    [action |-> action, m_limit |-> limit, m_match_count |-> 0, keys |-> <<>>]

\* QueryStateSum<int64_t>, QueryStateMin<int64_t>, QueryStateMax<int64_t> over
\* the column col: m_state starts at 0, at the largest and at the smallest
\* int64_t, m_minmax_index at the null key
QueryStateAgg(action, col) ==
    [action |-> action, m_limit |-> npos, m_match_count |-> 0, keys |-> <<>>,
     col |-> col,
     m_state |-> CASE action = "Sum" -> 0
                   [] action = "Min" -> LLONG_MAX
                   [] action = "Max" -> LLONG_MIN,
     m_minmax_index |-> null_key]

\* QueryStateSum / QueryStateMin / QueryStateMax ::match(index, value): a
\* null value is not counted; key is what m_minmax_index is set to
agg_match(st, key, val) ==
    LET st1 == CASE val = Null -> st
                 [] st.action = "Sum" ->
                      [st EXCEPT !.m_match_count = @ + 1, !.m_state = Int64Wrap(@ + val)]
                 [] st.action = "Min" ->
                      [st EXCEPT !.m_match_count = @ + 1,
                                 !.m_state = IF val < @ THEN val ELSE @,
                                 !.m_minmax_index = IF val < st.m_state THEN key ELSE @]
                 [] st.action = "Max" ->
                      [st EXCEPT !.m_match_count = @ + 1,
                                 !.m_state = IF val > @ THEN val ELSE @,
                                 !.m_minmax_index = IF val > st.m_state THEN key ELSE @]
    IN [cont |-> st1.m_limit > st1.m_match_count, st |-> st1]

\* QueryStateBase::match at row r of the cluster: cont is the value returned
st_match(st, r, cl, t) ==
    IF st.action \in {"FindAll", "Count"}
    THEN LET st1 == [st EXCEPT !.m_match_count = @ + 1,
                               !.keys = IF st.action = "FindAll"
                                        THEN Append(@, get_real_key(t, cl, r)) ELSE @]
         IN [cont |-> st1.m_limit > st1.m_match_count, st |-> st1]
    ELSE agg_match(st, get_real_key(t, cl, r), LeafGet(t, cl, st.col, r))

\* Query::find_best_node: std::min_element over cost(), first of the minima
find_best_node(pn) ==
    CHOOSE b \in 1..Len(pn) :
        /\ \A c \in 1..Len(pn) : ~cost_less(pn[c], pn[b])
        /\ \A c \in 1..(b - 1) : cost_less(pn[b], pn[c])

\* m_children of node k of the chain, without the node itself (m_children[0])
Siblings(pn, k) == SelectSeq([i \in 1..Len(pn) |-> i], LAMBDA i : i # k)

\* a return that skips the row after the last match
after_local_limit_skipping(r) == SzAdd(r, 2)

\* what aggregate_local returns when local_limit matches were found, r being
\* the last of them: return r + 1
after_local_limit(r) == SzAdd(r, 1)

\* an aggregate_local that looks for its first match after the row start
aggregate_local_after_start(pn0, k, st0, start, end, local_limit, cl, t) ==
    LET sib == Siblings(pn0, k)
        \* m_dD = double(r - start) / (local_matches + 1.1)
        SetdD(pn, r, local_matches) ==
            [pn EXCEPT ![k].m_dD = <<10 * SzSub(r, start), 10 * local_matches + 11>>]
        \* the loop over m_children[1..]: m stays r while every sibling matches at r
        RECURSIVE Remaining(_, _, _)
        Remaining(c, r, pn) ==
            IF c > Len(sib) THEN [m |-> r, pn |-> pn]
            ELSE Bind(find_first_local(pn[sib[c]], r, SzAdd(r, 1), cl, t),
                      LAMBDA f : IF f.r # r
                                 THEN [m |-> f.r, pn |-> [pn EXCEPT ![sib[c]] = f.n]]
                                 ELSE Remaining(c + 1, r, [pn EXCEPT ![sib[c]] = f.n]))
        RECURSIVE Loop(_, _, _, _)
        \* a final match at row r is reported to the state
        Matched(r, local_matches, pn, st) ==
            Bind(st_match(st, r, cl, t),
                 LAMBDA mt : IF ~mt.cont
                             THEN [ret |-> npos, pn |-> pn, st |-> mt.st]
                             ELSE Loop(r, local_matches, pn, mt.st))
        Loop(r, local_matches, pn, st) ==
            IF local_matches = local_limit
            THEN [ret |-> after_local_limit(r), pn |-> SetdD(pn, r, local_matches),
                  st |-> st]
            ELSE Bind(find_first_local(pn[k], SzAdd(r, 1), end, cl, t),
                      LAMBDA f :
                        IF f.r = not_found
                        THEN [ret |-> end,
                              pn |-> SetdD([pn EXCEPT ![k] = f.n], f.r, local_matches),
                              st |-> st]
                        ELSE Bind(Remaining(1, f.r, [pn EXCEPT ![k] = f.n]),
                                  LAMBDA rem :
                                    IF rem.m = f.r
                                    THEN Matched(f.r, local_matches + 1, rem.pn, st)
                                    ELSE Loop(f.r, local_matches + 1, rem.pn, st)))
    IN Loop(start, 0, pn0, st0)

\* ParentNode::aggregate_local called on node k of the chain pn.
\* ret is the returned row, pn and st the chain and the state afterwards.
aggregate_local(pn0, k, st0, start, end, local_limit, cl, t) ==
    LET sib == Siblings(pn0, k)
        \* m_dD = double(r - start) / (local_matches + 1.1)
        SetdD(pn, r, local_matches) ==
            [pn EXCEPT ![k].m_dD = <<10 * SzSub(r, start), 10 * local_matches + 11>>]
        \* the loop over m_children[1..]: m stays r while every sibling matches at r
        RECURSIVE Remaining(_, _, _)
        Remaining(c, r, pn) ==
            IF c > Len(sib) THEN [m |-> r, pn |-> pn]
            ELSE Bind(find_first_local(pn[sib[c]], r, SzAdd(r, 1), cl, t),
                      LAMBDA f : IF f.r # r
                                 THEN [m |-> f.r, pn |-> [pn EXCEPT ![sib[c]] = f.n]]
                                 ELSE Remaining(c + 1, r, [pn EXCEPT ![sib[c]] = f.n]))
        RECURSIVE Loop(_, _, _, _)
        \* a final match at row r is reported to the state
        Matched(r, local_matches, pn, st) ==
            Bind(st_match(st, r, cl, t),
                 LAMBDA mt : IF ~mt.cont
                             THEN [ret |-> npos, pn |-> pn, st |-> mt.st]
                             ELSE Loop(r, local_matches, pn, mt.st))
        Loop(r, local_matches, pn, st) ==
            IF local_matches = local_limit
            THEN [ret |-> after_local_limit(r), pn |-> SetdD(pn, r, local_matches),
                  st |-> st]
            ELSE Bind(find_first_local(pn[k], SzAdd(r, 1), end, cl, t),
                      LAMBDA f :
                        IF f.r = not_found
                        THEN [ret |-> end,
                              pn |-> SetdD([pn EXCEPT ![k] = f.n], f.r, local_matches),
                              st |-> st]
                        ELSE Bind(Remaining(1, f.r, [pn EXCEPT ![k] = f.n]),
                                  LAMBDA rem :
                                    IF rem.m = f.r
                                    THEN Matched(f.r, local_matches + 1, rem.pn, st)
                                    ELSE Loop(f.r, local_matches + 1, rem.pn, st)))
    IN Loop(SzSub(start, 1), 0, pn0, st0)

\* m_dT and m_dD of the nodes of a chain
Statistics(pn) == [i \in 1..Len(pn) |-> [m_dT |-> pn[i].m_dT, m_dD |-> pn[i].m_dD]]

\* one entry of the log of aggregate_internal: the node c was considered in a
\* round driven by best with the statistics stats, and was or was not given
\* the turn aggregate_local(st, start, end, ...); a is what the call left
Turn(best, c, given, stats, start, end, a) ==
    [best |-> best, node |-> c, given |-> given, stats |-> stats,
     start |-> start, end |-> end, ret |-> a.ret,
     m_dD |-> a.pn[c].m_dD, matches |-> a.st.m_match_count]

\* the test of Query::aggregate_internal that decides whether child c gets a
\* probe turn: m_dT < cost(), with the cost of the child itself
probe_turn_given(pn, c, best) ==
    pn[c].m_dT * pn[c].m_dD[2] < pn[c].m_dT * pn[c].m_dD[2] + pn[c].m_dD[1]

\* the for loop of Query::aggregate_internal that gives the other children a probe turn
RECURSIVE ProbeTurns(_, _, _, _, _, _, _, _)
ProbeTurns(c, best, pn, st, start, end, cl, t) ==
    IF c <= Len(pn) /\ start < end
    THEN IF c = best THEN ProbeTurns(c + 1, best, pn, st, start, end, cl, t)
         ELSE IF probe_turn_given(pn, c, best)
              THEN LET maxD == IF pn[c].m_dT = 0 THEN end - start ELSE bestdist
                       td == IF pn[c].m_dT = 0 THEN end
                             ELSE (IF start + maxD > end THEN end ELSE start + maxD)
                   IN Bind(aggregate_local(pn, c, st, start, td, probe_matches, cl, t),
                           LAMBDA a :
                             Bind(ProbeTurns(c + 1, best, a.pn, a.st, a.ret, end, cl, t),
                                  LAMBDA p : [p EXCEPT !.log =
                                      <<Turn(best, c, TRUE, Statistics(pn), start, td, a)>>
                                          \o @]))
              ELSE Bind(ProbeTurns(c + 1, best, pn, st, start, end, cl, t),
                        LAMBDA p : [p EXCEPT !.log =
                            <<Turn(best, c, FALSE, Statistics(pn), start, end,
                                   [ret |-> start, pn |-> pn, st |-> st])>> \o @])
    ELSE [start |-> start, pn |-> pn, st |-> st, log |-> <<>>]

\* Query::aggregate_internal; log is the sequence of the turns considered
RECURSIVE aggregate_internal(_, _, _, _, _, _)
aggregate_internal(pn, st, start, end, cl, t) ==
    IF start < end
    THEN Bind(find_best_node(pn),
              LAMBDA best :
                Bind(aggregate_local(pn, best, st, start, end, findlocals, cl, t),
                     LAMBDA a :
                       Bind(ProbeTurns(1, best, a.pn, a.st, a.ret, end, cl, t),
                            LAMBDA p :
                              Bind(aggregate_internal(p.pn, p.st, p.start, end, cl, t),
                                   LAMBDA rest : [rest EXCEPT !.log =
                                       <<Turn(best, best, TRUE, Statistics(pn), start, end, a)>>
                                           \o p.log \o @]))))
    ELSE [pn |-> pn, st |-> st, log |-> <<>>]

-----------------------------------------------------------------------------
(* Terminal operations.  Each takes the query value q and the table t.     *)

\* ParentNode::has_search_index
has_search_index(n) == n.kind = "StringNodeEqual" /\ n.m_has_search_index

\* Query::eval_object once init() has run; pn is the initialised root chain
eval_object(q, pn, t, key) ==
    IF has_conditions(q) THEN match(pn, t, key) ELSE [b |-> TRUE, c |-> pn]

\* an evaluator that adds the key in front of the keys collected so far
find_all_evaluator_prepend(q, pn, t, key, begin_key, end_key, refs) ==
    IF begin_key # null_key /\ key < begin_key THEN [b |-> FALSE, pn |-> pn, refs |-> refs]
    ELSE IF end_key # null_key /\ ~(key < end_key) THEN [b |-> FALSE, pn |-> pn, refs |-> refs]
    ELSE Bind(eval_object(q, pn, t, key),
              LAMBDA e : IF e.b THEN [b |-> TRUE, pn |-> e.c, refs |-> <<key>> \o refs]
                         ELSE [b |-> FALSE, pn |-> e.c, refs |-> refs])

\* the lambda Query::find_all hands to index_based_aggregate
find_all_evaluator(q, pn, t, key, begin_key, end_key, refs) ==
    IF begin_key # null_key /\ key < begin_key THEN [b |-> FALSE, pn |-> pn, refs |-> refs]
    ELSE IF end_key # null_key /\ ~(key < end_key) THEN [b |-> FALSE, pn |-> pn, refs |-> refs]
    ELSE Bind(eval_object(q, pn, t, key),
              LAMBDA e : IF e.b THEN [b |-> TRUE, pn |-> e.c, refs |-> Append(refs, key)]
                         ELSE [b |-> FALSE, pn |-> e.c, refs |-> refs])

\* an evaluator that counts every object the index hands over
count_evaluator_all(q, pn, t, key, refs) ==
    [b |-> TRUE, pn |-> pn, refs |-> Append(refs, key)]

\* the lambda Query::do_count hands to index_based_aggregate; refs holds one
\* entry per increment of counter
count_evaluator(q, pn, t, key, refs) ==
    Bind(eval_object(q, pn, t, key),
         LAMBDA e : IF e.b THEN [b |-> TRUE, pn |-> e.c, refs |-> Append(refs, key)]
                    ELSE [b |-> FALSE, pn |-> e.c, refs |-> refs])

\* index_based_aggregate(limit, evaluator) of the indexed node: hands the
\* index results to the evaluator in ObjKey order until limit of them were accepted
index_based_aggregate(q, pn0, results, limit0, t, for_find_all, begin_key, end_key) ==
    LET RECURSIVE Loop(_, _, _, _)
        Loop(i, limit, pn, refs) ==
            IF i <= Len(results) /\ limit > 0
            THEN Bind(IF for_find_all
                      THEN find_all_evaluator(q, pn, t, results[i], begin_key, end_key, refs)
                      ELSE count_evaluator(q, pn, t, results[i], refs),
                      LAMBDA e : Loop(i + 1, IF e.b THEN limit - 1 ELSE limit, e.pn, e.refs))
            ELSE refs
    IN Loop(1, limit0, pn0, <<>>)

\* the loop of Query::find_all over the attached view
find_all_view(q, pn0, t, begin, end, limit) ==
    LET RECURSIVE Loop(_, _, _)
        Loop(i, pn, ret) ==
            IF i < end /\ Len(ret) < limit
            THEN Bind(eval_object(q, pn, t, q.m_view.keys[i + 1]),
                      LAMBDA e : Loop(i + 1, e.c,
                                      IF e.b THEN Append(ret, q.m_view.keys[i + 1]) ELSE ret))
            ELSE ret
    IN Loop(begin, pn0, <<>>)

\* the cluster callback of Query::find_all for a query without conditions
find_all_no_conditions(t, begin0, end0, limit0) ==
    LET cls == Clusters(t)
        RECURSIVE Traverse(_, _, _, _, _)
        Traverse(ci, begin, end, limit, refs) ==
            IF ci > Len(cls) THEN refs
            ELSE LET cl == cls[ci]
                     e == IF begin < cl.n /\ cl.n > end THEN end ELSE cl.n
                     cnt == IF begin < cl.n /\ begin < e THEN Min2(e - begin, limit) ELSE 0
                     added == [i \in 1..cnt |-> get_real_key(t, cl, begin + i - 1)]
                     begin1 == IF begin < cl.n THEN 0 ELSE begin - cl.n
                     end1 == SzSub(end, e)
                     limit1 == limit - cnt
                 IN IF end1 = 0 \/ limit1 = 0 THEN refs \o added
                    ELSE Traverse(ci + 1, begin1, end1, limit1, refs \o added)
    IN Traverse(1, begin0, end0, limit0, <<>>)

\* the turns of a log with the number of the cluster they were made in
InCluster(log, ci) == [i \in 1..Len(log) |-> log[i] @@ [cluster |-> ci]]

\* the cluster callback of Query::find_all on the scan path, traversed
\* with the aggregate state st0: st is the state afterwards, log the turns
\* of aggregate_internal in all clusters, visited the number of clusters
\* the callback was called for
find_all_trace(pn0, st0, t, begin0, end0) ==
    LET cls == Clusters(t)
        RECURSIVE Traverse(_, _, _, _, _)
        Traverse(ci, begin, end, pn, st) ==
            IF ci > Len(cls) THEN [st |-> st, log |-> <<>>, visited |-> 0]
            ELSE LET cl == cls[ci]
                     e == IF begin < cl.n /\ cl.n > end THEN end ELSE cl.n
                     begin1 == IF begin < cl.n THEN 0 ELSE begin - cl.n
                     end1 == SzSub(end, e)
                 IN Bind(IF begin < cl.n
                         THEN aggregate_internal(set_cluster(pn), st, begin, e, cl, t)
                         ELSE [pn |-> pn, st |-> st, log |-> <<>>],
                         LAMBDA a :
                           IF end1 = 0 \/ a.st.m_match_count = a.st.m_limit
                           THEN [st |-> a.st, log |-> InCluster(a.log, ci), visited |-> 1]
                           ELSE Bind(Traverse(ci + 1, begin1, end1, a.pn, a.st),
                                     LAMBDA r : [r EXCEPT !.log = InCluster(a.log, ci) \o @,
                                                          !.visited = @ + 1]))
    IN Traverse(1, begin0, end0, pn0, st0)

\* the keys the scan path of Query::find_all has added to the view
find_all_traverse(pn0, st0, t, begin0, end0) ==
    find_all_trace(pn0, st0, t, begin0, end0).st.keys

\* a scan whose aggregate state is built without the limit
find_all_scan_unlimited(pn0, t, begin0, end0, limit) ==
    find_all_traverse(pn0, QueryState("FindAll", npos), t, begin0, end0)

\* the scan path of Query::find_all: QueryState<int64_t> st(act_FindAll, ..., limit)
find_all_scan(pn0, t, begin0, end0, limit) ==
    find_all_traverse(pn0, QueryState("FindAll", limit), t, begin0, end0)

\* the body of Query::find_all after init(); pn is the initialised root chain
find_all_initialised(q, pn, t, begin, end0, limit) ==
    IF q.m_view.bound
    THEN find_all_view(q, pn, t, begin,
                       IF end0 = npos THEN Len(q.m_view.keys) ELSE end0, limit)
    ELSE LET end == IF end0 = npos THEN TableSize(t) ELSE end0
         IN IF ~has_conditions(q)
            THEN find_all_no_conditions(t, begin, end, limit)
            ELSE Bind(pn[find_best_node(pn)],
                      LAMBDA node :
                        IF has_search_index(node)
                        THEN LET begin_key == IF begin >= TableSize(t) THEN null_key
                                              ELSE KeyAtRow(t, begin)
                                 end_key == IF end >= TableSize(t) THEN null_key
                                            ELSE KeyAtRow(t, end)
                             IN index_based_aggregate(q, pn, node.m_index_matches, limit,
                                                      t, TRUE, begin_key, end_key)
                        ELSE find_all_scan(pn, t, begin, end, limit))

\* Query::find_all(ConstTableView& ret, size_t begin, size_t end, size_t limit)
find_all(q, t, begin, end0, limit) ==
    IF limit = 0 THEN <<>>
    ELSE Bind(init(root_node(q), t),
              LAMBDA pn : find_all_initialised(q, pn, t, begin, end0, limit))

\* a count traversal whose callback never asks to stop
do_count_trace_every_cluster(pn0, st0, t) ==
    LET cls == Clusters(t)
        RECURSIVE Traverse(_, _, _)
        Traverse(ci, pn, st) ==
            IF ci > Len(cls) THEN [st |-> st, log |-> <<>>, visited |-> 0]
            ELSE Bind(aggregate_internal(set_cluster(pn), st, 0, cls[ci].n, cls[ci], t),
                      LAMBDA a : Bind(Traverse(ci + 1, a.pn, a.st),
                                      LAMBDA r : [r EXCEPT !.log = InCluster(a.log, ci) \o @,
                                                           !.visited = @ + 1]))
    IN Traverse(1, pn0, st0)

\* the cluster callback of Query::do_count on the scan path, traversed with
\* the aggregate state st0: st is the state afterwards, log the turns of
\* aggregate_internal in all clusters, visited the number of clusters the
\* callback was called for
do_count_trace(pn0, st0, t) ==
    LET cls == Clusters(t)
        RECURSIVE Traverse(_, _, _)
        Traverse(ci, pn, st) ==
            IF ci > Len(cls) THEN [st |-> st, log |-> <<>>, visited |-> 0]
            ELSE Bind(aggregate_internal(set_cluster(pn), st, 0, cls[ci].n, cls[ci], t),
                      LAMBDA a : IF a.st.m_match_count = a.st.m_limit
                                 THEN [st |-> a.st, log |-> InCluster(a.log, ci),
                                       visited |-> 1]
                                 ELSE Bind(Traverse(ci + 1, a.pn, a.st),
                                           LAMBDA r : [r EXCEPT
                                               !.log = InCluster(a.log, ci) \o @,
                                               !.visited = @ + 1]))
    IN Traverse(1, pn0, st0)

\* st.get_count() after the traversal
do_count_traverse(pn0, st0, t) == do_count_trace(pn0, st0, t).st.m_match_count

\* a count scan whose state is built without the limit
do_count_scan_unlimited(pn0, t, limit) ==
    do_count_traverse(pn0, QueryState("Count", npos), t)

\* the scan path of Query::do_count: QueryStateCount st(limit)
do_count_scan(pn0, t, limit) ==
    do_count_traverse(pn0, QueryState("Count", limit), t)

\* the loop of Query::do_count over the attached view
do_count_view(q, pn0, t, limit) ==
    LET sz == Len(q.m_view.keys)
        RECURSIVE Loop(_, _, _)
        Loop(i, pn, cnt) ==
            IF i < sz /\ cnt < limit
            THEN Bind(eval_object(q, pn, t, q.m_view.keys[i + 1]),
                      LAMBDA e : Loop(i + 1, e.c, IF e.b THEN cnt + 1 ELSE cnt))
            ELSE cnt
    IN Loop(0, pn0, 0)

\* the body of Query::do_count after init(); pn is the initialised root chain
do_count_initialised(q, pn, t, limit) ==
    IF q.m_view.bound THEN do_count_view(q, pn, t, limit)
    ELSE Bind(pn[find_best_node(pn)],
              LAMBDA node :
                IF has_search_index(node)
                THEN Len(index_based_aggregate(q, pn, node.m_index_matches, limit,
                                               t, FALSE, null_key, null_key))
                ELSE do_count_scan(pn, t, limit))

\* Query::do_count(size_t limit)
do_count(q, t, limit) ==
    IF limit = 0 THEN 0
    ELSE IF ~has_conditions(q)
    THEN IF q.m_view.bound THEN Min2(Len(q.m_view.keys), limit)
         ELSE Min2(TableSize(t), limit)
    ELSE Bind(init(root_node(q), t),
              LAMBDA pn : do_count_initialised(q, pn, t, limit))

\* the cluster callback of Query::aggregate: every cluster is traversed; pn
\* is the chain and st the state afterwards
aggregate_traverse(pn0, st0, t) ==
    LET cls == Clusters(t)
        RECURSIVE Traverse(_, _, _)
        Traverse(ci, pn, st) ==
            IF ci > Len(cls) THEN [pn |-> pn, st |-> st]
            ELSE Bind(aggregate_internal(set_cluster(pn), st, 0, cls[ci].n, cls[ci], t),
                      LAMBDA a : Traverse(ci + 1, a.pn, a.st))
    IN Traverse(1, pn0, st0)

\* the objects of keys, in that order, reported to the state with their value
aggregate_report(keys, st0, t) ==
    LET RECURSIVE Loop(_, _)
        Loop(i, st) ==
            IF i > Len(keys) THEN st
            ELSE Loop(i + 1, agg_match(st, keys[i],
                                       t.rows[RowOfKey(t, keys[i]) + 1][st.col]).st)
    IN Loop(1, st0)

\* the loop of Query::aggregate over the attached view
aggregate_view(q, pn0, t, st0) ==
    LET RECURSIVE Loop(_, _, _)
        Loop(i, pn, st) ==
            IF i < Len(q.m_view.keys)
            THEN Bind(eval_object(q, pn, t, q.m_view.keys[i + 1]),
                      LAMBDA e : Loop(i + 1, e.c,
                                      IF e.b THEN aggregate_report(<<q.m_view.keys[i + 1]>>, st, t)
                                      ELSE st))
            ELSE st
    IN Loop(0, pn0, st0)

\* the body of Query::aggregate after init(); pn is the initialised root chain
aggregate_initialised(q, pn, t, st0) ==
    IF q.m_view.bound THEN aggregate_view(q, pn, t, st0)
    ELSE Bind(pn[find_best_node(pn)],
              LAMBDA node :
                IF has_search_index(node)
                THEN aggregate_report(index_based_aggregate(q, pn, node.m_index_matches, npos,
                                                            t, FALSE, null_key, null_key),
                                      st0, t)
                ELSE aggregate_traverse(pn, st0, t).st)

\* Query::aggregate: st is the state afterwards; written tells whether
\* *resultcount and *return_ndx were assigned
aggregate(q, t, st0) ==
    IF ~has_conditions(q) /\ ~q.m_view.bound
    THEN [st |-> st0, written |-> FALSE]
    ELSE Bind(init(root_node(q), t),
              LAMBDA pn : [st |-> aggregate_initialised(q, pn, t, st0), written |-> TRUE])

\* Query::sum_int
sum_int(q, t, col) == aggregate(q, t, QueryStateAgg("Sum", col)).st.m_state

\* Query::maximum_int / Query::minimum_int: ret is the value returned,
\* return_ndx the caller's ObjKey afterwards
minmax_int(q, t, action, col, return_ndx) ==
    Bind(aggregate(q, t, QueryStateAgg(action, col)),
         LAMBDA a : [ret |-> a.st.m_state,
                     return_ndx |-> IF a.written THEN a.st.m_minmax_index ELSE return_ndx])
maximum_int(q, t, col, return_ndx) == minmax_int(q, t, "Max", col, return_ndx)
minimum_int(q, t, col, return_ndx) == minmax_int(q, t, "Min", col, return_ndx)

\* Query::average / average_int: avg is the quotient sum1 / resultcount2 as the
\* pair <<sum1, resultcount2>>, and <<0, 1>> for the avg1 = 0 of no result
average_int(q, t, col) ==
    Bind(aggregate(q, t, QueryStateAgg("Sum", col)),
         LAMBDA a :
           LET resultcount2 == IF a.written THEN a.st.m_match_count ELSE 0
           IN [avg |-> IF resultcount2 # 0 THEN <<a.st.m_state, resultcount2>> ELSE <<0, 1>>,
               resultcount |-> resultcount2])

\* the loop of Query::find over the attached view
find_view(q, pn0, t) ==
    LET RECURSIVE ViewLoop(_, _)
        ViewLoop(i, pn) ==
            IF i < Len(q.m_view.keys)
            THEN Bind(eval_object(q, pn, t, q.m_view.keys[i + 1]),
                      LAMBDA e : IF e.b THEN q.m_view.keys[i + 1] ELSE ViewLoop(i + 1, e.c))
            ELSE null_key
    IN ViewLoop(0, pn0)

\* a scan that never reports an object
find_scan_none(pn0, t) == null_key

\* the cluster callback of Query::find
find_scan(pn0, t) ==
    LET cls == Clusters(t)
        RECURSIVE Traverse(_, _)
        Traverse(ci, pn) ==
            IF ci > Len(cls) THEN null_key
            ELSE Bind(find_first(set_cluster(pn), 0, cls[ci].n, cls[ci], t),
                      LAMBDA f : IF f.r # not_found THEN get_real_key(t, cls[ci], f.r)
                                 ELSE Traverse(ci + 1, f.c))
    IN Traverse(1, pn0)

\* Query::find
find(q, t) ==
    IF ~has_conditions(q)
    THEN IF q.m_view.bound
         THEN (IF Len(q.m_view.keys) > 0 THEN q.m_view.keys[1] ELSE null_key)
         ELSE (IF TableSize(t) = 0 THEN null_key ELSE KeyAtRow(t, 0))
    ELSE Bind(init(root_node(q), t),
              LAMBDA pn0 : IF q.m_view.bound THEN find_view(q, pn0, t)
                           ELSE find_scan(pn0, t))

-----------------------------------------------------------------------------
(* The state machine: a table, a query built step by step, terminal calls  *)

\* the query value held in the variables
Q == [m_groups |-> m_groups, error_code |-> error_code, m_view |-> m_view]
T == Table(rows, indexed)

KeyOf(i) == 2 * i - 1                 \* ObjKey of the i-th object created
StrVals == {"x", "y"}
MkRows(cells) == [i \in 1..Len(cells) |->
                     [key |-> KeyOf(i), a |-> cells[i][1], n |-> cells[i][2], s |-> cells[i][3]]]
SeqsUpTo(S, n) == UNION {[1..k -> S] : k \in 0..n}
Reverse(sq) == [i \in 1..Len(sq) |-> sq[Len(sq) + 1 - i]]
KeysOf(r) == [i \in 1..Len(r) |-> r[i].key]

\* a view over the table that is neither sorted by key nor free of
\* duplicates (a descending sort, a link list linking one object twice)
ViewOf(r) == View(Reverse(KeysOf(r)) \o (IF Len(r) > 0 THEN <<r[1].key>> ELSE <<>>))

NoQuery == create(NoView)
NoResult == [op |-> "none", q |-> NoQuery, ret |-> <<>>]
NoBuild == [op |-> "none"]

\* objects matching both of s = "x" and a > 0, or one of them
ExecCells == {<<1, 0, "x">>, <<0, 0, "x">>, <<1, 0, "y">>}

Init ==
    /\ rows \in {MkRows(c) : c \in SeqsUpTo(ExecCells, MaxRows)}
    /\ \E cfg \in {"scan", "index", "view"} :
          /\ indexed = (cfg = "index")
          /\ m_view = IF cfg = "view" THEN ViewOf(rows) ELSE NoView
    /\ m_groups = <<QueryGroup>>
    /\ error_code = ""
    /\ last = NoCall
    /\ opA = NoQuery /\ opB = NoQuery
    /\ lhs = NoResult /\ rhs = NoResult
    /\ built = NoBuild
    /\ heap = <<>>

\* the table, and the node store that only copies of queries work on
tableVars == <<rows, indexed, heap>>
algVars == <<opA, opB, lhs, rhs, built>>

SetQuery(q) ==
    /\ m_groups' = q.m_groups
    /\ error_code' = q.error_code
    /\ m_view' = q.m_view
    /\ last' = NoCall
    /\ built' = NoBuild
    /\ UNCHANGED <<tableVars, opA, opB, lhs, rhs>>

Depth == Len(m_groups)
RECURSIVE GroupsNodeCount(_)
GroupsNodeCount(gs) ==
    IF gs = <<>> THEN 0 ELSE NodeCount(Head(gs).m_root_node) + GroupsNodeCount(Tail(gs))
CanAdd == GroupsNodeCount(m_groups) < MaxNodes

\* q.equal(s, v)
EqualS(v) == CanAdd /\ SetQuery(equal(Q, "s", StrVal(v)))
\* q.greater(a, v)
GreaterA(v) == CanAdd /\ SetQuery(greater(Q, "a", IntVal(v)))
\* q.Not()
DoNot == Depth < MaxGroups /\ SetQuery(Not(Q))

Crashes == HasNullNot(root_node(Q))

\* q.find_all(begin, end, limit)
FindAll(begin, end, limit) ==
    /\ last = NoCall
    /\ begin <= Len(rows)
    /\ m_view.bound => (end = npos \/ end <= Len(m_view.keys))
    /\ ~Crashes
    /\ last' = [op |-> "find_all", begin |-> begin, end |-> end, limit |-> limit,
                ret |-> find_all(Q, T, begin, end, limit)]
    /\ UNCHANGED <<tableVars, m_view, m_groups, error_code, algVars>>

\* q.count(limit)
Count(limit) ==
    /\ last = NoCall
    /\ ~Crashes
    /\ last' = [op |-> "count", limit |-> limit, ret |-> do_count(Q, T, limit)]
    /\ UNCHANGED <<tableVars, m_view, m_groups, error_code, algVars>>

\* q.find()
Find ==
    /\ last = NoCall
    /\ ~Crashes
    /\ last' = [op |-> "find", ret |-> find(Q, T)]
    /\ UNCHANGED <<tableVars, m_view, m_groups, error_code, algVars>>

\* q.get_description()
GetDescription ==
    /\ last = NoCall
    /\ last' = [op |-> "get_description", thrown |-> get_description(Q).thrown,
                ret |-> get_description(Q).ret]
    /\ UNCHANGED <<tableVars, m_view, m_groups, error_code, algVars>>

\* the caller drops the result it holds
Discard ==
    /\ last # NoCall
    /\ last' = NoCall
    /\ UNCHANGED <<tableVars, m_view, m_groups, error_code, algVars>>

Limits == {0, 1, 2, npos}
Ends == 0..MaxRows \cup {npos}

Next ==
    \/ \E v \in {"x"} : EqualS(v)
    \/ \E v \in {0} : GreaterA(v)
    \/ DoNot
    \/ \E b \in 0..MaxRows, e \in Ends, l \in {1, npos} : FindAll(b, e, l)
    \/ FindAll(0, npos, 0)
    \/ \E l \in Limits : Count(l)
    \/ Find
    \/ GetDescription
    \/ Discard

Spec == Init /\ [][Next]_vars

-----------------------------------------------------------------------------
(* The operators !, && and || applied to two operand queries               *)

AlgRows == 4
\* objects with a = 0, a = 1 and a null a (the ages 30, 40 and null, scaled)
AlgCells == {<<0, 0, "x">>, <<1, 0, "y">>, <<Null, 0, "x">>}

InitAlg ==
    /\ rows \in {MkRows(c) : c \in SeqsUpTo(AlgCells, AlgRows)}
    /\ indexed \in BOOLEAN
    /\ m_view = NoView
    /\ m_groups = <<QueryGroup>>
    /\ error_code = ""
    /\ last = NoCall
    /\ opA = NoQuery /\ opB = NoQuery
    /\ lhs = NoResult /\ rhs = NoResult
    /\ built = NoBuild
    /\ heap = <<>>

execVars == <<m_view, m_groups, error_code, last, built>>

\* the operand named side with one more condition
Operand(side) == IF side = "A" THEN opA ELSE opB
SetOperand(side, q) ==
    /\ lhs.op = "none"
    /\ NodeCount(root_node(Operand(side))) < MaxNodes
    /\ NodeCount(root_node(opA)) + NodeCount(root_node(opB)) <= MaxNodes
    /\ opA' = IF side = "A" THEN q ELSE opA
    /\ opB' = IF side = "B" THEN q ELSE opB
    /\ UNCHANGED <<tableVars, execVars, lhs, rhs>>

AlgEqualS(side, v) == SetOperand(side, equal(Operand(side), "s", StrVal(v)))
AlgGreaterA(side, v) == SetOperand(side, greater(Operand(side), "a", IntVal(v)))

\* the query q with what find_all() returns for it
Run(op, q) == [op |-> op, q |-> q, ret |-> find_all(q, T, 0, npos, npos)]

\* !(A && B) and (!A) || (!B)
DeMorgan ==
    /\ lhs.op = "none"
    /\ has_conditions(opA) /\ has_conditions(opB)
    /\ lhs' = Run("demorgan", operator_not(operator_and(opA, opB)))
    /\ rhs' = Run("demorgan", operator_or(operator_not(opA), operator_not(opB)))
    /\ UNCHANGED <<tableVars, execVars, opA, opB>>

\* !A beside A
Negate ==
    /\ lhs.op = "none"
    /\ has_conditions(opA)
    /\ lhs' = Run("negate", operator_not(opA))
    /\ rhs' = Run("negate", opA)
    /\ UNCHANGED <<tableVars, execVars, opA, opB>>

\* A || B and A && B beside A and B, for operands with or without conditions
Combine ==
    /\ lhs.op = "none"
    /\ lhs' = [op |-> "combine", q |-> operator_or(opA, opB),
               ret |-> find_all(operator_or(opA, opB), T, 0, npos, npos),
               a |-> find_all(opA, T, 0, npos, npos),
               b |-> find_all(opB, T, 0, npos, npos)]
    /\ rhs' = Run("combine", operator_and(opA, opB))
    /\ UNCHANGED <<tableVars, execVars, opA, opB>>

AlgDiscard ==
    /\ lhs.op # "none"
    /\ lhs' = NoResult /\ rhs' = NoResult
    /\ UNCHANGED <<tableVars, execVars, opA, opB>>

NextAlg ==
    \/ \E side \in {"A", "B"} : AlgEqualS(side, "x")
    \/ \E side \in {"A", "B"} : AlgGreaterA(side, 0)
    \/ DeMorgan
    \/ Negate
    \/ Combine
    \/ AlgDiscard

SpecAlg == InitAlg /\ [][NextAlg]_vars

-----------------------------------------------------------------------------
(* between() on a nullable and on a non-nullable int64 column              *)

\* the extremes of int64 and a value between them
BetweenVals == {LLONG_MIN, 0, LLONG_MAX}
\* objects whose nullable a and non-nullable n hold the same value, and one
\* whose a is null
BetweenCells == {<<v, v, "x">> : v \in BetweenVals} \cup {<<Null, 0, "y">>}

InitBetween ==
    /\ rows \in {MkRows(c) : c \in SeqsUpTo(BetweenCells, MaxRows)}
    /\ indexed = FALSE
    /\ m_view = NoView
    /\ m_groups = <<QueryGroup>>
    /\ error_code = ""
    /\ last = NoCall
    /\ opA = NoQuery /\ opB = NoQuery
    /\ lhs = NoResult /\ rhs = NoResult
    /\ built = NoBuild
    /\ heap = <<>>

\* q.between(col, from, to)
Between(col, from, to) ==
    /\ built = NoBuild
    /\ CanAdd
    /\ LET q == between(Q, col, from, to)
       IN /\ m_groups' = q.m_groups
          /\ error_code' = q.error_code
          /\ m_view' = q.m_view
    /\ last' = NoCall
    /\ built' = [op |-> "between", col |-> col, from |-> from, to |-> to,
                 depth |-> Depth, conditions |-> has_conditions(Q)]
    /\ UNCHANGED <<tableVars, opA, opB, lhs, rhs>>

NextBetween ==
    \/ \E col \in {"a", "n"}, from \in BetweenVals, to \in BetweenVals : Between(col, from, to)
    \/ built = NoBuild /\ EqualS("x")
    \/ built = NoBuild /\ DoNot
    \/ FindAll(0, npos, npos)
    \/ Discard

SpecBetween == InitBetween /\ [][NextBetween]_vars

-----------------------------------------------------------------------------
(* Properties of the terminal operations, checked under Spec               *)

StrictlyIncreasing(sq) == \A i \in 1..(Len(sq) - 1) : sq[i] < sq[i + 1]

RECURSIVE IsSubseq(_, _)
IsSubseq(sq, whole) ==
    IF sq = <<>> THEN TRUE
    ELSE IF whole = <<>> THEN FALSE
    ELSE IF Head(sq) = Head(whole) THEN IsSubseq(Tail(sq), Tail(whole))
    ELSE IsSubseq(sq, Tail(whole))

Prefix(sq, n) == SubSeq(sq, 1, Min2(n, Len(sq)))

\* the find_all call took the index fast path
OnIndexPath ==
    /\ ~m_view.bound
    /\ has_conditions(Q)
    /\ LET pn == init(root_node(Q), T) IN has_search_index(pn[find_best_node(pn)])

\* the find_all call took the cluster scan with conditions
OnScanPath ==
    /\ ~m_view.bound
    /\ has_conditions(Q)
    /\ ~OnIndexPath

\* C1 as stated: the keys find_all appends are strictly increasing on every
\* executor path, the iteration of an attached view included.
C1_StrictlyIncreasingEverywhere ==
    last.op = "find_all" => StrictlyIncreasing(last.ret)

\* C1 amended: the keys find_all appends are strictly increasing on the
\* cluster scan, the no-condition path and the index fast path; on the view
\* path they are appended in the order of the view, as a subsequence of it.
C1_IncreasingOffViewAndViewOrder ==
    last.op = "find_all" =>
        IF m_view.bound THEN IsSubseq(last.ret, m_view.keys)
        ELSE StrictlyIncreasing(last.ret)

C1_Witness ==
    /\ last.op = "find_all"
    /\ OnScanPath
    /\ Len(root_node(Q)) = 2
    /\ Len(last.ret) >= 2

\* C2: count() without a limit equals the number of keys find_all() returns
\* with default begin, end and limit.
C2_CountEqualsFindAllLength ==
    (last.op = "count" /\ last.limit = npos) =>
        last.ret = Len(find_all(Q, T, 0, npos, npos))

C2_Witness ==
    /\ last.op = "count"
    /\ last.limit = npos
    /\ OnIndexPath
    /\ Len(root_node(Q)) = 2
    /\ last.ret >= 1
    /\ last.ret < Len(rows)

\* C3: count(L) equals min(L, count()) for every limit L, zero included.
C3_CountLimit ==
    last.op = "count" => last.ret = Min2(last.limit, do_count(Q, T, npos))

C3_Witness ==
    /\ last.op = "count"
    /\ last.limit = 1
    /\ OnScanPath
    /\ do_count(Q, T, npos) >= 2
    /\ last.ret = 1

\* C4 as stated: with begin <= table size, find_all through the index fast
\* path returns the key sequence the cluster scan returns once the index is
\* dropped.
C4_IndexEquivalence ==
    (last.op = "find_all" /\ OnIndexPath /\ last.begin <= Len(rows)) =>
        last.ret = find_all(Q, Table(rows, FALSE), last.begin, last.end, last.limit)

\* C5: every permutation of the conditions AND-ed in the root group gives
\* the same find_all result and the same count.
Orders(n) == {p \in [1..n -> 1..n] : \A i, j \in 1..n : p[i] = p[j] => i = j}

\* the query built by adding the conditions of chain in the order p
RECURSIVE AddInOrder(_, _, _, _)
AddInOrder(q, chain, p, i) ==
    IF i > Len(chain) THEN q
    ELSE AddInOrder(add_node(q, <<chain[p[i]]>>), chain, p, i + 1)

Reordered(p) == AddInOrder(create(m_view), root_node(Q), p, 1)

C5_PlannerInvariance ==
    (Depth = 1 /\ ~m_groups[1].m_pending_not /\ last.op \in {"find_all", "count"}) =>
        \A p \in Orders(Len(root_node(Q))) :
            last.ret = IF last.op = "count" THEN do_count(Reordered(p), T, last.limit)
                       ELSE find_all(Reordered(p), T, last.begin, last.end, last.limit)

C5_Witness ==
    /\ last.op = "find_all"
    /\ Depth = 1
    /\ Len(root_node(Q)) = 2
    /\ root_node(Q)[1].kind # root_node(Q)[2].kind
    /\ ~m_view.bound
    /\ Len(last.ret) >= 1
    /\ Len(last.ret) < Len(find_all(create(NoView), T, last.begin, last.end, last.limit))

\* C6: find_all(begin, end, limit) returns the first min(limit, n) keys of
\* what find_all(begin, end, unlimited) returns, so never more than limit
\* keys, and nothing when limit is 0.  The match counter only grows, so its
\* final value within the limit bounds it in every step of the execution.
C6_LimitPrefix ==
    last.op = "find_all" =>
        /\ last.ret = Prefix(find_all(Q, T, last.begin, last.end, npos), last.limit)
        /\ Len(last.ret) <= last.limit

C6_Witness ==
    /\ last.op = "find_all"
    /\ last.limit = 1
    /\ OnScanPath
    /\ Len(find_all(Q, T, last.begin, last.end, npos)) >= 2
    /\ Len(last.ret) = 1

\* C7: find() returns the first key find_all() returns with default
\* arguments, and the null key exactly when find_all() returns nothing.
C7_FindIsFirstOfFindAll ==
    last.op = "find" =>
        LET all == find_all(Q, T, 0, npos, npos)
        IN last.ret = IF all = <<>> THEN null_key ELSE all[1]

C7_Witness ==
    /\ last.op = "find"
    /\ OnIndexPath
    /\ last.ret # null_key
    /\ last.ret # rows[1].key

\* C22: get_description() on a query bound to a view throws, with and
\* without conditions; on a query without a view and without conditions it
\* returns TRUEPREDICATE.
C22_DescriptionOfViewAndEmpty ==
    last.op = "get_description" =>
        /\ m_view.bound => last.thrown
        /\ (~m_view.bound /\ ~has_conditions(Q)) =>
               ~last.thrown /\ last.ret = <<"TRUEPREDICATE">>

-----------------------------------------------------------------------------
(* Properties of the operators, checked under SpecAlg                      *)

ToSet(sq) == {sq[i] : i \in 1..Len(sq)}
AllKeys == {rows[i].key : i \in 1..Len(rows)}

\* the ages 30, 40, 40 and null of four objects, scaled to 0, 1, 1 and null
AgeData == Len(rows) = 4 /\ [i \in 1..4 |-> rows[i].a] = <<0, 1, 1, Null>>
\* age > 30, scaled
AgeGreater30 == <<IntegerNode("Greater", "a", 0)>>

\* C8: the result set of !(A && B) equals the result set of (!A) || (!B) for
\* all operand queries A and B with conditions, on tables with null values too.
C8_DeMorgan ==
    lhs.op = "demorgan" => ToSet(lhs.ret) = ToSet(rhs.ret)

C8_Witness ==
    /\ lhs.op = "demorgan"
    /\ root_node(opA) # root_node(opB)
    /\ \E i \in 1..Len(rows) : rows[i].a = Null /\ rows[i].key \in ToSet(lhs.ret)
    /\ \E i \in 1..Len(rows) : rows[i].key \notin ToSet(rhs.ret)

\* C33: the objects A || B returns are those A returns together with those
\* B returns, and the objects A && B returns are those both return, where an
\* operand without conditions returns every object.
C33_UnionAndIntersection ==
    lhs.op = "combine" =>
        /\ ToSet(lhs.ret) = ToSet(lhs.a) \cup ToSet(lhs.b)
        /\ ToSet(rhs.ret) = ToSet(lhs.a) \cap ToSet(lhs.b)

\* C9 as stated: not(age > 30) over the ages 30, 40, 40, null matches only
\* the object with age 30; the negation of a comparison excludes the null rows
\* the comparison excludes.
C9_NegationExcludesNull ==
    (lhs.op = "negate" /\ root_node(opA) = AgeGreater30) =>
        /\ \A i \in 1..Len(rows) : rows[i].a = Null => rows[i].key \notin ToSet(lhs.ret)
        /\ AgeData => lhs.ret = <<KeyOf(1)>>

\* C9 amended: not(age > 30) over the ages 30, 40, 40, null matches the object
\* with age 30 and the object with the null age; the negation of a query
\* matches exactly the objects the query does not match, null rows included.
C9_NegationIsComplement ==
    lhs.op = "negate" =>
        /\ ToSet(lhs.ret) = AllKeys \ ToSet(rhs.ret)
        /\ (AgeData /\ root_node(opA) = AgeGreater30) => lhs.ret = <<KeyOf(1), KeyOf(4)>>

C9_Witness ==
    /\ lhs.op = "negate"
    /\ AgeData
    /\ root_node(opA) = AgeGreater30
    /\ lhs.ret = <<KeyOf(1), KeyOf(4)>>
    /\ rhs.ret = <<KeyOf(2), KeyOf(3)>>

-----------------------------------------------------------------------------
(* Properties of between(), checked under SpecBetween                      *)

\* keys of the objects whose column col holds a value v with from <= v <= to
KeysBetween(col, from, to) ==
    SelectSeq(KeysOf(rows),
              LAMBDA k : LET c == rows[RowOfKey(T, k) + 1][col]
                         IN c # Null /\ from <= c /\ c <= to)

\* C10 as stated: between(c, a, b) matches exactly the objects with
\* a <= c <= b, the extremes of int64 included, so none when a > b, and leaves
\* the depth of the group stack as it was before the call.
C10_Between ==
    built.op = "between" =>
        /\ ~built.conditions /\ built.depth = 1 =>
               find_all(Q, T, 0, npos, npos) = KeysBetween(built.col, built.from, built.to)
        /\ Depth = built.depth

-----------------------------------------------------------------------------
(* greater_equal() and less_equal() with every int64 value                 *)

Int64 == LLONG_MIN..LLONG_MAX

\* a builder call whose effect is recorded with the query it was made on
Record(op, col, v, q) ==
    /\ built = NoBuild
    /\ CanAdd
    /\ m_groups' = q.m_groups
    /\ error_code' = q.error_code
    /\ m_view' = q.m_view
    /\ last' = NoCall
    /\ built' = [op |-> op, col |-> col, v |-> v, before |-> Q]
    /\ UNCHANGED <<tableVars, opA, opB, lhs, rhs>>

\* q.greater_equal(col, v)
GreaterEqual(col, v) == Record("greater_equal", col, v, greater_equal(Q, col, v))
\* q.less_equal(col, v)
LessEqual(col, v) == Record("less_equal", col, v, less_equal(Q, col, v))

NextBounds ==
    \/ \E col \in {"a", "n"}, v \in Int64 : GreaterEqual(col, v)
    \/ \E col \in {"a", "n"}, v \in Int64 : LessEqual(col, v)
    \/ built = NoBuild /\ EqualS("x")
    \/ built = NoBuild /\ DoNot
    \/ FindAll(0, npos, npos)
    \/ Discard

SpecBounds == InitBetween /\ [][NextBounds]_vars

-----------------------------------------------------------------------------
(* Properties of the integer bounds, checked under SpecBounds              *)

\* keys of the objects whose column col holds a non-null value satisfying P
KeysWhere(col, P(_)) ==
    SelectSeq(KeysOf(rows),
              LAMBDA k : LET c == rows[RowOfKey(T, k) + 1][col]
                         IN c # Null /\ P(c))

\* the query the call was made on had no condition and no open group
OnFreshQuery == built.before = NoQuery

\* C11: greater_equal(c, INT64_MIN) and less_equal(c, INT64_MAX) leave the
\* predicate tree as it was and the query made of them alone yields every
\* object; for any other v greater_equal(c, v) adds Greater(v - 1) and
\* less_equal(c, v) adds Less(v + 1), the operand being an int64 value, and
\* the query matches exactly the objects with c >= v, respectively c <= v.
C11_IntegerBounds ==
    /\ built.op = "greater_equal" =>
          IF built.v = LLONG_MIN
          THEN /\ Q = built.before
               /\ OnFreshQuery => find_all(Q, T, 0, npos, npos) = KeysOf(rows)
          ELSE OnFreshQuery =>
                 /\ root_node(Q) = <<IntegerNode("Greater", built.col, built.v - 1)>>
                 /\ built.v - 1 \in Int64
                 /\ find_all(Q, T, 0, npos, npos)
                        = KeysWhere(built.col, LAMBDA c : c >= built.v)
    /\ built.op = "less_equal" =>
          IF built.v = LLONG_MAX
          THEN /\ Q = built.before
               /\ OnFreshQuery => find_all(Q, T, 0, npos, npos) = KeysOf(rows)
          ELSE OnFreshQuery =>
                 /\ root_node(Q) = <<IntegerNode("Less", built.col, built.v + 1)>>
                 /\ built.v + 1 \in Int64
                 /\ find_all(Q, T, 0, npos, npos)
                        = KeysWhere(built.col, LAMBDA c : c <= built.v)

\* greater_equal(a, INT64_MIN) on a fresh query over a table with a null a,
\* executed; and a greater_equal that keeps some objects and drops others
C11_Witness ==
    /\ built.op = "greater_equal" /\ OnFreshQuery
    /\ built.v = LLONG_MIN /\ built.col = "a"
    /\ last.op = "find_all"
    /\ Len(last.ret) = 3
    /\ \E i \in 1..Len(rows) : rows[i].a = Null

-----------------------------------------------------------------------------
(* Equal-string conditions on one column, AND-ed and OR-ed                 *)

\* objects with three different strings
CoalesceCells == {<<0, 0, "x">>, <<0, 0, "y">>, <<0, 0, "z">>}

InitCoalesce ==
    /\ rows \in {MkRows(c) : c \in SeqsUpTo(CoalesceCells, MaxRows)}
    /\ indexed \in BOOLEAN
    /\ m_view = NoView
    /\ m_groups = <<QueryGroup>>
    /\ error_code = ""
    /\ last = NoCall
    /\ opA = NoQuery /\ opB = NoQuery
    /\ lhs = NoResult /\ rhs = NoResult
    /\ built = NoBuild
    /\ heap = <<>>

\* q.Or(), called after a condition
DoOr ==
    /\ has_conditions(Q)
    /\ m_groups[Depth].m_state # "OrCondition"
    /\ CanAdd
    /\ SetQuery(Or(Q))

NextCoalesce ==
    \/ \E v \in StrVals : EqualS(v)
    \/ DoOr
    \/ FindAll(0, npos, npos)
    \/ Discard

SpecCoalesce == InitCoalesce /\ [][NextCoalesce]_vars

-----------------------------------------------------------------------------
(* Properties of equal-coalescing, checked under SpecCoalesce              *)

IsEqualNode(b) == Len(b) = 1 /\ b[1].kind = "StringNodeEqual"

\* the root is an AND chain of equal-string conditions
IsEqualChain(c) == Len(c) >= 1 /\ \A i \in 1..Len(c) : c[i].kind = "StringNodeEqual"

\* the root is one OrNode whose branches are single equal-string conditions
IsEqualOr(c) ==
    /\ Len(c) = 1 /\ c[1].kind = "OrNode"
    /\ Len(c[1].m_conditions) >= 1
    /\ \A b \in 1..Len(c[1].m_conditions) : IsEqualNode(c[1].m_conditions[b])

ChainNeedles(c) == {c[i].value : i \in 1..Len(c)}
OrNeedles(c) == {c[1].m_conditions[b][1].value : b \in 1..Len(c[1].m_conditions)}

\* keys of the objects whose s is a member of the set
KeysIn(needles) == SelectSeq(KeysOf(rows), LAMBDA k : rows[RowOfKey(T, k) + 1].s \in needles)

\* keys of the objects that the query s = v alone returns, for some v of the set
KeysOfSomeEqual(needles) ==
    SelectSeq(KeysOf(rows),
              LAMBDA k : \E v \in needles :
                  k \in ToSet(find_all(equal(NoQuery, "s", StrVal(v)), T, 0, npos, npos)))

\* C12 as stated: the AND of equal-string conditions on one column without a
\* search index selects exactly the objects whose value is a member of the
\* needle set.
C12_AndIsMembership ==
    (~indexed /\ IsEqualChain(root_node(Q)) /\ last.op = "find_all") =>
        last.ret = KeysIn(ChainNeedles(root_node(Q)))

\* C12 amended: the OR of equal-string conditions on one column without a
\* search index is coalesced into the first condition, whose needle set then
\* holds every needle, and selects exactly the objects whose value is a
\* member of the needle set, which is what the conditions return one by one;
\* an AND chain of equal-string conditions is not coalesced.
C12_OrIsMembership ==
    /\ (~indexed /\ IsEqualOr(root_node(Q)) /\ last.op = "find_all") =>
          /\ last.ret = KeysIn(OrNeedles(root_node(Q)))
          /\ last.ret = KeysOfSomeEqual(OrNeedles(root_node(Q)))
          /\ LET pn == init(root_node(Q), T)
             IN /\ Len(pn[1].m_conditions) = 1
                /\ Len(root_node(Q)[1].m_conditions) > 1 =>
                       pn[1].m_conditions[1][1].m_needles = OrNeedles(root_node(Q))
    /\ (~indexed /\ IsEqualChain(root_node(Q))) =>
          LET pn == init(root_node(Q), T)
          IN Len(pn) = Len(root_node(Q)) /\ \A i \in 1..Len(pn) : pn[i].m_needles = {}

\* s = "x" or s = "y" without an index over objects holding x, y and z
C12_Witness ==
    /\ ~indexed
    /\ IsEqualOr(root_node(Q))
    /\ OrNeedles(root_node(Q)) = {"x", "y"}
    /\ [i \in 1..Len(rows) |-> rows[i].s] = <<"y", "z", "x">>
    /\ last.op = "find_all"
    /\ last.ret = <<KeyOf(1), KeyOf(3)>>

-----------------------------------------------------------------------------
(* Explicit groups with Or(), over a table with three int columns          *)

GroupedNodes == MaxNodes + 1      \* condition nodes of a grouped query

\* objects [a, n, c]; the rows (1,0,1), (0,2,1), (0,0,5), (1,2,-1) of the
\* example with c = 5 scaled to LLONG_MAX
GroupCells == <<<<1, 0, 1>>, <<0, 2, 1>>, <<0, 0, LLONG_MAX>>, <<1, 2, 0 - 1>>>>
MkGroupRows(cells) ==
    [i \in 1..Len(cells) |->
        [key |-> KeyOf(i), a |-> cells[i][1], n |-> cells[i][2], c |-> cells[i][3], s |-> "x"]]

InitGroup ==
    /\ rows \in {MkGroupRows(c) : c \in SeqsUpTo(ToSet(GroupCells), MaxRows) \cup {GroupCells}}
    /\ indexed = FALSE
    /\ m_view = NoView
    /\ m_groups = <<QueryGroup>>
    /\ error_code = ""
    /\ last = NoCall
    /\ opA = NoQuery /\ opB = NoQuery
    /\ lhs = NoResult /\ rhs = NoResult
    /\ built = NoBuild
    /\ heap = <<>>

CanAddGrouped == GroupsNodeCount(m_groups) < GroupedNodes

\* q.equal(col, v) and q.greater(col, v) on an int column
EqualInt(col, v) == CanAddGrouped /\ SetQuery(equal(Q, col, IntVal(v)))
GreaterInt(col, v) == CanAddGrouped /\ SetQuery(greater(Q, col, IntVal(v)))
\* q.group()
DoGroup == Depth < MaxGroups /\ SetQuery(group(Q))
\* q.end_group() closing a group that holds a condition
DoEndGroup ==
    /\ Depth > 1
    /\ m_groups[Depth].m_root_node # NullNode
    /\ m_groups[Depth].m_state # "OrCondition"
    /\ SetQuery(end_group(Q))
\* q.Or() after a condition of the current group
GroupOr ==
    /\ m_groups[Depth].m_root_node # NullNode
    /\ m_groups[Depth].m_state # "OrCondition"
    /\ SetQuery(Or(Q))
\* q.find_all() on a query whose groups are closed and whose Or() has a right side
GroupFindAll ==
    /\ Depth = 1
    /\ m_groups[1].m_state # "OrCondition"
    /\ FindAll(0, npos, npos)

NextGroup ==
    \/ EqualInt("a", 1)
    \/ EqualInt("n", 2)
    \/ GreaterInt("c", 0)
    \/ DoGroup
    \/ DoEndGroup
    \/ GroupOr
    \/ GroupFindAll
    \/ Discard

SpecGroup == InitGroup /\ [][NextGroup]_vars

-----------------------------------------------------------------------------
(* Properties of grouping, checked under SpecGroup                         *)

\* what a predicate tree means for one object: a chain is the conjunction of
\* its nodes, an OrNode the disjunction of its branches, a NotNode the
\* negation of its condition
RECURSIVE Satisfies(_, _)
Satisfies(obj, chain) ==
    \A i \in 1..Len(chain) :
        LET n == chain[i]
        IN CASE n.kind = "OrNode" ->
                  \E b \in 1..Len(n.m_conditions) : Satisfies(obj, n.m_conditions[b])
             [] n.kind = "NotNode" -> ~Satisfies(obj, n.m_condition)
             [] OTHER -> CondHolds(n.cond, obj[n.col], n.value)

KeysSatisfying(P(_)) == SelectSeq(KeysOf(rows), LAMBDA k : P(rows[RowOfKey(T, k) + 1]))

CondA == <<IntegerNode("Equal", "a", 1)>>
CondB == <<IntegerNode("Equal", "n", 2)>>
CondC == <<IntegerNode("Greater", "c", 0)>>
\* the tree of group(); X; Or(); Y; end_group(); C
OrGroupThen(x, y, z) == <<[kind |-> "OrNode", m_conditions |-> <<x, y>>]>> \o z

AOrBAndC(obj) == (obj.a = 1 \/ obj.n = 2) /\ obj.c > 0

\* C13: the query built as group(); A; Or(); B; end_group(); C has the OrNode
\* of A and B followed by C as its root chain and returns exactly the objects
\* satisfying (A or B) and C, with either of A and B given first.
C13_GroupedOr ==
    /\ last.op = "find_all" =>
          last.ret = KeysSatisfying(LAMBDA obj : Satisfies(obj, root_node(Q)))
    /\ (last.op = "find_all" /\ root_node(Q) \in {OrGroupThen(CondA, CondB, CondC),
                                                  OrGroupThen(CondB, CondA, CondC)}) =>
          last.ret = KeysSatisfying(AOrBAndC)
    /\ \A x \in {CondA, CondB} : \A y \in {CondA, CondB} \ {x} :
          LET q1 == group(NoQuery)
              q2 == add_node(q1, x)
              q3 == Or(q2)
              q4 == add_node(q3, y)
              q5 == end_group(q4)
              q6 == add_node(q5, CondC)
          IN root_node(q6) = OrGroupThen(x, y, CondC) /\ Len(q6.m_groups) = 1

\* the example: (a = 1 or n = 2) and c > 0 over the four rows returns the
\* first two
C13_Witness ==
    /\ rows = MkGroupRows(GroupCells)
    /\ root_node(Q) = OrGroupThen(CondA, CondB, CondC)
    /\ last.op = "find_all"
    /\ last.ret = <<KeyOf(1), KeyOf(2)>>

-----------------------------------------------------------------------------
(* Aggregates over a nullable and a non-nullable int column                *)

\* objects with a = 0, a = 1 and a null a (the ages 30, 40 and null, scaled)
AggCells == {<<0, 0, "x">>, <<1, 1, "x">>, <<Null, 0, "x">>, <<1, 1, "y">>}
\* the ages 30, 40, 40, null
AgeCells == <<<<0, 0, "x">>, <<1, 1, "x">>, <<1, 1, "x">>, <<Null, 0, "x">>>>

InitAgg ==
    /\ rows \in {MkRows(c) : c \in SeqsUpTo(AggCells, MaxRows) \cup {AgeCells}}
    /\ \E cfg \in {"scan", "index", "view"} :
          /\ indexed = (cfg = "index")
          /\ m_view = IF cfg = "view" THEN View(KeysOf(rows)) ELSE NoView
    /\ m_groups = <<QueryGroup>>
    /\ error_code = ""
    /\ last = NoCall
    /\ opA = NoQuery /\ opB = NoQuery
    /\ lhs = NoResult /\ rhs = NoResult
    /\ built = NoBuild
    /\ heap = <<>>

Returned(r) ==
    /\ last = NoCall
    /\ last' = r
    /\ UNCHANGED <<tableVars, m_view, m_groups, error_code, algVars>>

\* q.average_int(col, &resultcount)
AverageInt(col) ==
    Returned([op |-> "average_int", col |-> col] @@ average_int(Q, T, col))
\* q.sum_int(col)
SumInt(col) == Returned([op |-> "sum_int", col |-> col, ret |-> sum_int(Q, T, col)])
\* q.maximum_int(col, &key) with key holding before
MaximumInt(col, before) ==
    Returned([op |-> "maximum_int", col |-> col, before |-> before]
             @@ maximum_int(Q, T, col, before))
\* q.minimum_int(col, &key) with key holding before
MinimumInt(col, before) ==
    Returned([op |-> "minimum_int", col |-> col, before |-> before]
             @@ minimum_int(Q, T, col, before))

\* values of the caller's ObjKey before the call
OutKeys == {null_key, KeyOf(1)}

NextAgg ==
    \/ \E v \in {"x"} : EqualS(v)
    \/ \E v \in {0} : GreaterA(v)
    \/ \E col \in {"a", "n"} : AverageInt(col)
    \/ \E col \in {"a", "n"} : SumInt(col)
    \/ \E col \in {"a", "n"}, k \in OutKeys : MaximumInt(col, k)
    \/ \E col \in {"a", "n"}, k \in OutKeys : MinimumInt(col, k)
    \/ Discard

SpecAgg == InitAgg /\ [][NextAgg]_vars

-----------------------------------------------------------------------------
(* Properties of the aggregates, checked under SpecAgg                     *)

\* the objects the query matches, views counted object by object
Matching == find_all(Q, T, 0, npos, npos)

RECURSIVE SumOf(_)
SumOf(vals) == IF vals = <<>> THEN 0 ELSE Head(vals) + SumOf(Tail(vals))

\* the non-null values of column col in the objects with the given keys
NonNull(col, keys) ==
    SelectSeq([i \in 1..Len(keys) |-> rows[RowOfKey(T, keys[i]) + 1][col]],
              LAMBDA v : v # Null)

\* C14 as stated: on a query that matches every object average_int returns
\* the sum of the non-null values divided by their number and reports that
\* number, also when the query has no conditions.
C14_AverageOverAll ==
    (last.op = "average_int" /\ Matching = KeysOf(rows) /\ Len(rows) <= LLONG_MAX) =>
        LET vals == NonNull(last.col, KeysOf(rows))
        IN /\ last.resultcount = Len(vals)
           /\ last.avg = IF Len(vals) = 0 THEN <<0, 1>> ELSE <<SumOf(vals), Len(vals)>>

\* C15 as stated: when no object matches, sum returns 0, average returns 0
\* with count 0, and minimum / maximum return the largest / smallest int64
\* and set the caller's key to the null key whatever it held.
C15_EmptyAggregates ==
    Matching = <<>> =>
        /\ last.op = "sum_int" => last.ret = 0
        /\ last.op = "average_int" => last.avg = <<0, 1>> /\ last.resultcount = 0
        /\ last.op = "maximum_int" => last.ret = LLONG_MIN /\ last.return_ndx = null_key
        /\ last.op = "minimum_int" => last.ret = LLONG_MAX /\ last.return_ndx = null_key

-----------------------------------------------------------------------------
(* Queries as objects.  The node objects live in the store heap, a sequence *)
(* indexed by address; nullptr is no address.  A std::unique_ptr<ParentNode> *)
(* is the address of the node it owns.  A query object is the record        *)
(* [m_groups, error_code] whose groups hold the address of their root node. *)
(* Operations return the store and the query afterwards, and ub = TRUE when  *)
(* the call has undefined behaviour.                                        *)

MaxHeap == 4          \* node objects ever allocated
nullptr == 0

\* the ParentNode part of a node object: m_child and the statistics
ParentNode == [m_child |-> nullptr, m_dD |-> <<100, 1>>, m_dT |-> 0]
IntegerObject(cond, col, value) ==
    [kind |-> "IntegerNode", cond |-> cond, col |-> col, value |-> value] @@ ParentNode
OrObject(condition) ==
    [kind |-> "OrNode",
     m_conditions |-> IF condition = nullptr THEN <<>> ELSE <<condition>>] @@ ParentNode
NotObject(condition) == [kind |-> "NotNode", m_condition |-> condition] @@ ParentNode

\* new: the object is stored at a fresh address p
new(h, obj) == [h |-> Append(h, obj), p |-> Len(h) + 1]

RECURSIVE clone(_, _), ParentNode_copy(_, _)

\* a copy constructor that copies the pointer m_child instead of cloning
\* what it points to
ParentNode_copy_sharing(h, from) == [h |-> h, p |-> h[from].m_child]

\* ParentNode::ParentNode(const ParentNode& from): m_child is a clone of
\* from.m_child, the statistics are copied.  p is the new m_child.
ParentNode_copy(h, from) == clone(h, h[from].m_child)

\* ParentNode::clone (virtual): new Node(*this).  The copy constructors of
\* OrNode and NotNode clone the conditions they own.
clone(h, from) ==
    IF from = nullptr THEN [h |-> h, p |-> nullptr]
    ELSE Bind(ParentNode_copy(h, from),
              LAMBDA c :
                CASE h[from].kind = "OrNode" ->
                       LET RECURSIVE Each(_, _, _)
                           Each(i, hh, ps) ==
                               IF i > Len(h[from].m_conditions) THEN [h |-> hh, ps |-> ps]
                               ELSE Bind(clone(hh, h[from].m_conditions[i]),
                                         LAMBDA b : Each(i + 1, b.h, Append(ps, b.p)))
                       IN Bind(Each(1, c.h, <<>>),
                               LAMBDA bs : new(bs.h, [h[from] EXCEPT !.m_child = c.p,
                                                                     !.m_conditions = bs.ps]))
                  [] h[from].kind = "NotNode" ->
                       Bind(clone(c.h, h[from].m_condition),
                            LAMBDA n : new(n.h, [h[from] EXCEPT !.m_child = c.p,
                                                                !.m_condition = n.p]))
                  [] OTHER -> new(c.h, [h[from] EXCEPT !.m_child = c.p]))

\* QueryGroup::QueryGroup(const QueryGroup& other)
QueryGroup_copy(h, other) ==
    Bind(clone(h, other.m_root_node),
         LAMBDA c : [h |-> c.h,
                     g |-> [m_root_node |-> c.p, m_pending_not |-> other.m_pending_not,
                            m_state |-> other.m_state]])

\* QueryGroup::operator=(const QueryGroup& other): m_state is left as it is
QueryGroup_assign(h, this, other) ==
    Bind(clone(h, other.m_root_node),
         LAMBDA c : [h |-> c.h,
                     g |-> [m_root_node |-> c.p, m_pending_not |-> other.m_pending_not,
                            m_state |-> this.m_state]])

\* std::vector<QueryGroup> copy construction, and copy assignment: the
\* elements the target already has are assigned to unless the vector
\* reallocates, the others are copy-constructed
RECURSIVE groups_copy(_, _, _, _, _)
groups_copy(h, target, source, i, out) ==
    IF i > Len(source) THEN [h |-> h, gs |-> out]
    ELSE Bind(IF i <= Len(target) THEN QueryGroup_assign(h, target[i], source[i])
              ELSE QueryGroup_copy(h, source[i]),
              LAMBDA c : groups_copy(c.h, target, source, i + 1, Append(out, c.g)))

\* Query::Query(const Query& source), without a view
Query_copy(h, source) ==
    Bind(groups_copy(h, <<>>, source.m_groups, 1, <<>>),
         LAMBDA c : [h |-> c.h,
                     q |-> [m_groups |-> c.gs, error_code |-> source.error_code]])

\* Query::operator=(const Query& source), without a view: error_code is
\* left as it is
Query_assign(h, this, source, reallocates) ==
    Bind(groups_copy(h, IF reallocates THEN <<>> ELSE this.m_groups, source.m_groups, 1, <<>>),
         LAMBDA c : [h |-> c.h,
                     q |-> [m_groups |-> c.gs, error_code |-> this.error_code]])

\* ParentNode::add_child on the node at p: the child goes to the end of the
\* m_child chain
RECURSIVE add_child_at(_, _, _)
add_child_at(h, p, child) ==
    IF h[p].m_child = nullptr THEN [h EXCEPT ![p].m_child = child]
    ELSE add_child_at(h, h[p].m_child, child)

\* the static_cast<OrNode*> of add_node on something that is no OrNode, or
\* m_conditions.back() of an OrNode without conditions
BadOrNode(h, g) ==
    \/ g.m_root_node = nullptr
    \/ h[g.m_root_node].kind # "OrNode"
    \/ g.m_state = "OrConditionChildren" /\ h[g.m_root_node].m_conditions = <<>>

Undefined(h, q) == [h |-> h, q |-> q, ub |-> TRUE]
Defined(h, q) == [h |-> h, q |-> q, ub |-> FALSE]

RECURSIVE add_node_at(_, _, _), handle_pending_not_at(_, _), end_group_at(_, _)

\* Query::add_node on the query object q; node is the address of the node
add_node_at(h, q, node) ==
    LET n == Len(q.m_groups)
        g == q.m_groups[n]
        or_node == g.m_root_node
    IN CASE g.m_state = "OrCondition" ->
              IF BadOrNode(h, g) THEN Undefined(h, q)
              ELSE handle_pending_not_at(
                       [h EXCEPT ![or_node].m_conditions = Append(@, node)],
                       [q EXCEPT !.m_groups[n].m_state = "OrConditionChildren"])
         [] g.m_state = "OrConditionChildren" ->
              IF BadOrNode(h, g) THEN Undefined(h, q)
              ELSE handle_pending_not_at(
                       add_child_at(h, h[or_node].m_conditions[Len(h[or_node].m_conditions)],
                                    node),
                       q)
         [] OTHER ->
              IF g.m_root_node = nullptr
              THEN handle_pending_not_at(h, [q EXCEPT !.m_groups[n].m_root_node = node])
              ELSE handle_pending_not_at(add_child_at(h, g.m_root_node, node), q)

\* Query::handle_pending_not on the query object
handle_pending_not_at(h, q) ==
    LET n == Len(q.m_groups)
        current_group == q.m_groups[n]
    IN IF n > 1 /\ current_group.m_pending_not
       THEN Bind(new(h, NotObject(current_group.m_root_node)),
                 LAMBDA not_node :
                   Bind(add_node_at(not_node.h,
                                    [q EXCEPT !.m_groups[n].m_root_node = nullptr,
                                              !.m_groups[n].m_pending_not = FALSE],
                                    not_node.p),
                        LAMBDA a : IF a.ub THEN a ELSE end_group_at(a.h, a.q)))
       ELSE Defined(h, q)

\* Query::end_group on the query object
end_group_at(h, q) ==
    IF Len(q.m_groups) < 2
    THEN Defined(h, [q EXCEPT !.error_code = "Unbalanced group"])
    ELSE LET n == Len(q.m_groups)
             end_root_node == q.m_groups[n].m_root_node
         IN Bind(IF end_root_node # nullptr
                 THEN add_node_at(h, [q EXCEPT !.m_groups = SubSeq(@, 1, n - 1)], end_root_node)
                 ELSE Defined(h, [q EXCEPT !.m_groups = SubSeq(@, 1, n - 1)]),
                 LAMBDA a : IF a.ub THEN a ELSE handle_pending_not_at(a.h, a.q))

\* Query::group on the query object
group_at(h, q) ==
    Defined(h, [q EXCEPT !.m_groups =
                   Append(@, [m_root_node |-> nullptr, m_pending_not |-> FALSE,
                              m_state |-> "Default"])])

\* Query::Not on the query object
Not_at(h, q) ==
    Defined(h, [q EXCEPT !.m_groups =
                   Append(@, [m_root_node |-> nullptr, m_pending_not |-> TRUE,
                              m_state |-> "Default"])])

\* Query::Or on the query object; see Or for the store through current_group
Or_at(h, q) ==
    LET n == Len(q.m_groups)
        current_group == q.m_groups[n]
    IN Bind(IF current_group.m_state # "OrConditionChildren"
            THEN Bind(new(h, OrObject(current_group.m_root_node)),
                      LAMBDA or_node :
                        add_node_at(or_node.h, [q EXCEPT !.m_groups[n].m_root_node = nullptr],
                                    or_node.p))
            ELSE Defined(h, q),
            LAMBDA a : IF a.ub \/ Len(a.q.m_groups) < n THEN a
                       ELSE Defined(a.h, [a.q EXCEPT !.m_groups[n].m_state = "OrCondition"]))

\* Query::add_condition on the query object: the node is made, then added
add_condition_at(h, q, cond, col, value) ==
    Bind(new(h, IntegerObject(cond, col, value)),
         LAMBDA made : add_node_at(made.h, q, made.p))

\* the predicate tree that starts at address p, as a value
RECURSIVE TreeOf(_, _)
TreeOf(h, p) ==
    IF p = nullptr THEN NullNode
    ELSE <<CASE h[p].kind = "OrNode" ->
                  [kind |-> "OrNode",
                   m_conditions |-> [b \in 1..Len(h[p].m_conditions) |->
                                        TreeOf(h, h[p].m_conditions[b])]]
             [] h[p].kind = "NotNode" -> NotNode(TreeOf(h, h[p].m_condition))
             [] OTHER -> IntegerNode(h[p].cond, h[p].col, h[p].value)>>
         \o TreeOf(h, h[p].m_child)

\* the statistics m_dD and m_dT of the chain pn stored into the node objects
\* of the chain that starts at p
RECURSIVE StoreStatistics(_, _, _)
StoreStatistics(h, p, pn) ==
    IF p = nullptr THEN h
    ELSE LET h1 == [h EXCEPT ![p].m_dD = pn[1].m_dD, ![p].m_dT = pn[1].m_dT]
             RECURSIVE Branches(_, _)
             Branches(b, hh) ==
                 IF b > Len(h[p].m_conditions) THEN hh
                 ELSE Branches(b + 1, StoreStatistics(hh, h[p].m_conditions[b],
                                                      pn[1].m_conditions[b]))
             h2 == CASE h[p].kind = "OrNode" -> Branches(1, h1)
                     [] h[p].kind = "NotNode" ->
                          StoreStatistics(h1, h[p].m_condition, pn[1].m_condition)
                     [] OTHER -> h1
         IN StoreStatistics(h2, h[p].m_child, Tail(pn))

\* Query::count() on the query object: init() and the scan write the
\* statistics of the nodes of the query
count_at(h, q, t) ==
    LET root == q.m_groups[1].m_root_node
    IN IF root = nullptr THEN Defined(h, q)
       ELSE IF HasNullNot(TreeOf(h, root)) THEN Undefined(h, q)
       ELSE Bind(init(TreeOf(h, root), t),
                 LAMBDA pn0 :
                   Bind(aggregate_traverse(pn0, QueryState("Count", npos), t),
                        LAMBDA a : Defined(StoreStatistics(h, root, a.pn), q)))

-----------------------------------------------------------------------------
(* A query object (opA) and a copy of it (opB), each built on and executed *)

NewQueryObject ==
    [m_groups |-> <<[m_root_node |-> nullptr, m_pending_not |-> FALSE, m_state |-> "Default"]>>,
     error_code |-> ""]
\* opB before the copy is made
NoCopy == [m_groups |-> <<>>, error_code |-> ""]

\* the table the two queries are run on
CloneCells == <<<<0, 0, "x">>, <<1, 0, "x">>>>

InitClone ==
    /\ rows = MkRows(CloneCells)
    /\ indexed = FALSE
    /\ m_view = NoView
    /\ m_groups = <<QueryGroup>>
    /\ error_code = ""
    /\ last = NoCall
    /\ opA = NewQueryObject /\ opB = NoCopy
    /\ lhs = NoResult /\ rhs = NoResult
    /\ built = NoBuild
    /\ heap = <<>>

ObjectOf(who) == IF who = "source" THEN opA ELSE opB

\* addresses of the node objects of a chain, in the order they are reached
RECURSIVE ReachFrom(_, _)
ReachFrom(h, p) ==
    IF p = nullptr THEN <<>>
    ELSE LET RECURSIVE Branches(_)
             Branches(b) == IF b > Len(h[p].m_conditions) THEN <<>>
                            ELSE ReachFrom(h, h[p].m_conditions[b]) \o Branches(b + 1)
         IN <<p>> \o (CASE h[p].kind = "OrNode" -> Branches(1)
                        [] h[p].kind = "NotNode" -> ReachFrom(h, h[p].m_condition)
                        [] OTHER -> <<>>)
                 \o ReachFrom(h, h[p].m_child)

RECURSIVE ReachGroups(_, _)
ReachGroups(h, gs) ==
    IF gs = <<>> THEN <<>> ELSE ReachFrom(h, Head(gs).m_root_node) \o ReachGroups(h, Tail(gs))

\* sq without the later occurrences of an element
RECURSIVE Distinct(_)
Distinct(sq) ==
    IF sq = <<>> THEN <<>>
    ELSE LET front == Distinct(SubSeq(sq, 1, Len(sq) - 1))
         IN IF sq[Len(sq)] \in ToSet(front) THEN front ELSE Append(front, sq[Len(sq)])

\* The node objects no query owns are freed (their unique_ptr is gone), and
\* the store is laid out afresh: the nodes of the source, then those of the
\* copy.  a and b are the two query objects with the new addresses.
Compact(h, a, b) ==
    LET order == Distinct(ReachGroups(h, a.m_groups) \o ReachGroups(h, b.m_groups))
        At(p) == IF p = nullptr THEN nullptr
                 ELSE CHOOSE i \in 1..Len(order) : order[i] = p
        Moved(obj) ==
            CASE obj.kind = "OrNode" ->
                   [obj EXCEPT !.m_child = At(@),
                               !.m_conditions = [i \in 1..Len(@) |-> At(@[i])]]
              [] obj.kind = "NotNode" ->
                   [obj EXCEPT !.m_child = At(@), !.m_condition = At(@)]
              [] OTHER -> [obj EXCEPT !.m_child = At(@)]
        Groups(q) == [q EXCEPT !.m_groups =
                         [i \in 1..Len(@) |-> [@[i] EXCEPT !.m_root_node = At(@)]]]
    IN [h |-> [i \in 1..Len(order) |-> Moved(h[order[i]])],
        a |-> Groups(a), b |-> Groups(b)]

\* the store and the two query objects after a call
Stored(h, a, b) ==
    Bind(Compact(h, a, b),
         LAMBDA c : heap' = c.h /\ opA' = c.a /\ opB' = c.b)

\* a call on the source or on the copy, with what it leaves behind
Called(op, who, result) ==
    /\ who = "copy" => opB # NoCopy
    /\ ~result.ub
    /\ Len(result.h) <= MaxHeap
    /\ Stored(result.h, IF who = "source" THEN result.q ELSE opA,
              IF who = "copy" THEN result.q ELSE opB)
    /\ built' = [op |-> IF op = "count" THEN "execution" ELSE "builder", on |-> who]
    /\ UNCHANGED <<rows, indexed, m_view, m_groups, error_code, last, lhs, rhs>>

CloneGreater(who) ==
    Called("greater", who, add_condition_at(heap, ObjectOf(who), "Greater", "a", 0))
CloneNot(who) ==
    /\ Len(ObjectOf(who).m_groups) < MaxGroups
    /\ Called("Not", who, Not_at(heap, ObjectOf(who)))
CloneGroup(who) ==
    /\ Len(ObjectOf(who).m_groups) < MaxGroups
    /\ Called("group", who, group_at(heap, ObjectOf(who)))
CloneOr(who) ==
    /\ Len(ObjectOf(who).m_groups) > 0
    /\ Called("Or", who, Or_at(heap, ObjectOf(who)))
CloneCount(who) ==
    /\ Len(ObjectOf(who).m_groups) > 0
    /\ Called("count", who, count_at(heap, ObjectOf(who), T))

Copied(c) ==
    /\ Len(c.h) <= MaxHeap
    /\ Stored(c.h, opA, c.q)
    /\ built' = [op |-> "copy", on |-> "copy"]
    /\ UNCHANGED <<rows, indexed, m_view, m_groups, error_code, last, lhs, rhs>>

\* Query copy(source)
CopyConstruct == opB = NoCopy /\ Copied(Query_copy(heap, opA))

\* copy = source
CopyAssign(reallocates) ==
    /\ opB # NoCopy
    /\ reallocates => Len(opA.m_groups) > Len(opB.m_groups)
    /\ Copied(Query_assign(heap, opB, opA, reallocates))

NextClone ==
    \/ \E who \in {"source", "copy"} : CloneGreater(who)
    \/ \E who \in {"source", "copy"} : CloneNot(who)
    \/ \E who \in {"source", "copy"} : CloneGroup(who)
    \/ \E who \in {"source", "copy"} : CloneOr(who)
    \/ \E who \in {"source", "copy"} : CloneCount(who)
    \/ CopyConstruct
    \/ \E reallocates \in BOOLEAN : CopyAssign(reallocates)

SpecClone == InitClone /\ [][NextClone]_vars

-----------------------------------------------------------------------------
(* Properties of copies, checked under SpecClone                           *)

\* the node objects of the chain at p with their statistics, as a value
RECURSIVE OwnedFrom(_, _)
OwnedFrom(h, p) ==
    IF p = nullptr THEN <<>>
    ELSE <<CASE h[p].kind = "OrNode" ->
                  [h[p] EXCEPT !.m_conditions = [b \in 1..Len(@) |-> OwnedFrom(h, @[b])],
                               !.m_child = nullptr]
             [] h[p].kind = "NotNode" ->
                  [h[p] EXCEPT !.m_condition = OwnedFrom(h, @), !.m_child = nullptr]
             [] OTHER -> [h[p] EXCEPT !.m_child = nullptr]>>
         \o OwnedFrom(h, h[p].m_child)

\* a query object with everything it owns: the group stack, and the node
\* objects of its predicate trees with their statistics
Owned(h, q) ==
    [error_code |-> q.error_code,
     m_groups |-> [i \in 1..Len(q.m_groups) |->
                     [q.m_groups[i] EXCEPT !.m_root_node = OwnedFrom(h, @)]]]

SourceState == Owned(heap, opA)
CopyState == Owned(heap, opB)

\* C16: a call on the copy (a builder operation, an execution, or the copy
\* construction or assignment itself) leaves the source's group stack,
\* predicate tree and node statistics as they were, and a call on the source
\* leaves those of the copy as they were.
C16_CloneIndependence ==
    [][built'.op # "none" =>
          /\ built'.on = "copy" => SourceState' = SourceState
          /\ built'.on = "source" => CopyState' = CopyState]_vars

\* the copy of a query with a condition was given a second condition, which
\* the source does not have
C16_Witness ==
    /\ built.op = "builder" /\ built.on = "copy"
    /\ Len(TreeOf(heap, opA.m_groups[1].m_root_node)) = 1
    /\ Len(TreeOf(heap, opB.m_groups[1].m_root_node)) = 2

\* what the builder and validate() read of a query object: the recorded
\* error and, for every group, its state, its pending negation and its tree
Built(h, q) ==
    [error_code |-> q.error_code,
     m_groups |-> [i \in 1..Len(q.m_groups) |->
                     [q.m_groups[i] EXCEPT !.m_root_node = TreeOf(h, @)]]]

\* C31: right after the copy was constructed from the source or assigned
\* the source, every group of the copy has the state, the pending-not flag
\* and the tree of the corresponding group of the source, and the copy has
\* the recorded error of the source.
C31_AssignEqualsCopy ==
    built.op = "copy" => Built(heap, opB) = Built(heap, opA)

-----------------------------------------------------------------------------
(* The builder interface called in any order, with validate() and          *)
(* find_all() as the terminal calls                                        *)

BuilderCells == <<<<0, 0, "x">>, <<1, 0, "y">>>>
Aborted == [op |-> "aborted"]

InitBuilder ==
    /\ rows = MkRows(BuilderCells)
    /\ indexed = FALSE
    /\ m_view = NoView
    /\ m_groups = <<QueryGroup>>
    /\ error_code = ""
    /\ last = NoCall
    /\ opA = NoQuery /\ opB = NoQuery
    /\ lhs = NoResult /\ rhs = NoResult
    /\ built = NoBuild
    /\ heap = <<>>

RECURSIVE ObjectCount(_)
\* the node objects of a chain, OrNode and NotNode objects included
ObjectCount(chain) ==
    IF chain = <<>> THEN 0
    ELSE LET h == Head(chain)
             RECURSIVE BranchCount(_)
             BranchCount(bs) == IF bs = <<>> THEN 0
                                ELSE ObjectCount(Head(bs)) + BranchCount(Tail(bs))
             below == CASE h.kind = "OrNode" -> BranchCount(h.m_conditions)
                        [] h.kind = "NotNode" -> ObjectCount(h.m_condition)
                        [] OTHER -> 0
         IN 1 + below + ObjectCount(Tail(chain))
RECURSIVE GroupsObjectCount(_)
GroupsObjectCount(gs) ==
    IF gs = <<>> THEN 0
    ELSE ObjectCount(Head(gs).m_root_node) + GroupsObjectCount(Tail(gs))

BuilderObjects == MaxNodes + 1    \* node objects of a query under construction

\* Or() on a frame in state OrCondition moves the root away and add_node
\* then appends to the OrNode behind a null pointer: the assertion of a
\* debug build aborts, a release build dereferences null
OrOnMovedRoot == m_groups[Depth].m_state = "OrCondition"

\* a builder call returned or threw: q is the query it leaves behind; built
\* keeps the depth of the stack, the number of condition nodes, whether the
\* current group held a condition and the recorded error before the call
BuilderCall(op, col, v, q, thrown) ==
    /\ built # Aborted
    /\ GroupsObjectCount(m_groups) < BuilderObjects
    /\ m_groups' = q.m_groups
    /\ error_code' = q.error_code
    /\ m_view' = q.m_view
    /\ last' = NoCall
    /\ built' = [op |-> op, col |-> col, v |-> v, thrown |-> thrown,
                 depth |-> Depth, objects |-> GroupsObjectCount(m_groups),
                 held |-> m_groups[Depth].m_root_node # NullNode,
                 error |-> error_code]
    /\ UNCHANGED <<tableVars, opA, opB, lhs, rhs>>

\* q.equal / q.less / q.greater (col, v)
BuildCompare(op, col, v) ==
    LET cond == CASE op = "equal" -> "Equal" [] op = "less" -> "Less"
                  [] op = "greater" -> "Greater"
    IN BuilderCall(op, col, <<v>>, add_condition(Q, cond, col, v), type_mismatch(cond, col, v))
\* q.greater_equal(col, v)
BuildGreaterEqual(col, v) ==
    BuilderCall("greater_equal", col, <<IntVal(v)>>, greater_equal(Q, col, v),
                greater_equal_throws(col, v))
\* q.less_equal(col, v)
BuildLessEqual(col, v) ==
    BuilderCall("less_equal", col, <<IntVal(v)>>, less_equal(Q, col, v),
                less_equal_throws(col, v))
\* q.between(col, from, to); the group it opens is closed when it returns
BuildBetween(col, from, to) ==
    /\ Depth <= MaxGroups
    /\ BuilderCall("between", col, <<IntVal(from), IntVal(to)>>, between(Q, col, from, to),
                   between_throws(col, from, to))
\* q.group()
BuildGroup == Depth < MaxGroups /\ BuilderCall("group", "", <<>>, group(Q), FALSE)
\* q.end_group(), on the outermost frame too
BuildEndGroup == BuilderCall("end_group", "", <<>>, end_group(Q), FALSE)
\* q.Not()
BuildNot == Depth < MaxGroups /\ BuilderCall("Not", "", <<>>, Not(Q), FALSE)
\* q.Or()
BuildOr == ~OrOnMovedRoot /\ BuilderCall("Or", "", <<>>, Or(Q), FALSE)
\* q.Or() with undefined behaviour: the process does not go on
BuildOrAborts ==
    /\ built # Aborted
    /\ OrOnMovedRoot
    /\ built' = Aborted
    /\ last' = NoCall
    /\ UNCHANGED <<tableVars, m_view, m_groups, error_code, opA, opB, lhs, rhs>>
\* q.and_query(other)
BuildAndQuery(other) == BuilderCall("and_query", "", <<>>, and_query(Q, other), FALSE)

\* q.validate()
Validate ==
    /\ built # Aborted
    /\ last = NoCall
    /\ last' = [op |-> "validate", ret |-> validate(Q)]
    /\ UNCHANGED <<tableVars, m_view, m_groups, error_code, algVars>>

\* !q: the query it returns, or the exception
Negation ==
    /\ built # Aborted
    /\ last = NoCall
    /\ last' = IF operator_not_throws(Q)
               THEN [op |-> "operator!", thrown |-> TRUE, ret |-> NoQuery]
               ELSE [op |-> "operator!", thrown |-> FALSE, ret |-> operator_not(Q)]
    /\ UNCHANGED <<tableVars, m_view, m_groups, error_code, algVars>>

\* q.find_all() on a tree that can be executed
BuilderFindAll ==
    /\ built # Aborted
    /\ node_validate(root_node(Q)) = ""
    /\ FindAll(0, npos, npos)

BuilderInts == {LLONG_MIN, 0, LLONG_MAX}
OtherQueries == {create(NoView), equal(create(NoView), "a", IntVal(1))}

NextBuilder ==
    \/ \E col \in {"a", "s"} : BuildCompare("equal", col, StrVal("x"))
    \/ \E op \in {"equal", "less", "greater"}, col \in {"a", "s"} :
          BuildCompare(op, col, IntVal(0))
    \/ \E col \in {"a", "s"}, v \in BuilderInts : BuildGreaterEqual(col, v)
    \/ \E col \in {"a", "s"}, v \in BuilderInts : BuildLessEqual(col, v)
    \/ \E col \in {"a", "s"}, from \in {LLONG_MIN, 0}, to \in {0, LLONG_MAX} :
          BuildBetween(col, from, to)
    \/ BuildGroup
    \/ BuildEndGroup
    \/ BuildNot
    \/ BuildOr
    \/ BuildOrAborts
    \/ \E other \in OtherQueries : BuildAndQuery(other)
    \/ Validate
    \/ Negation
    \/ BuilderFindAll
    \/ Discard

SpecBuilder == InitBuilder /\ [][NextBuilder]_vars

-----------------------------------------------------------------------------
(* Properties of the builder interface, checked under SpecBuilder          *)

RECURSIVE WellFormed(_)
\* every OrNode of the chain has a branch and every NotNode a condition
WellFormed(chain) ==
    \A i \in 1..Len(chain) :
        LET n == chain[i]
        IN CASE n.kind = "OrNode" ->
                  /\ Len(n.m_conditions) >= 1
                  /\ \A b \in 1..Len(n.m_conditions) : WellFormed(n.m_conditions[b])
             [] n.kind = "NotNode" ->
                  n.m_condition # NullNode /\ WellFormed(n.m_condition)
             [] OTHER -> TRUE

\* C17: after any sequence of builder calls every OrNode in any group has at
\* least one branch and every NotNode wraps a non-null condition, and an Or()
\* that created an OrNode was called on a group that held a condition.
C17_WellFormedTrees ==
    /\ \A g \in 1..Depth : WellFormed(m_groups[g].m_root_node)
    /\ (built.op = "Or" /\ GroupsObjectCount(m_groups) > built.objects) => built.held

\* C18: end_group() on the outermost frame records "Unbalanced group" and
\* leaves the group stack with its trees as it was; no later call removes the
\* recorded error, and every validate() made with it recorded returns it.
C18_UnbalancedEndGroup ==
    [][/\ (built'.op = "end_group" /\ built'.depth = 1) =>
              error_code' = "Unbalanced group" /\ m_groups' = m_groups
       /\ error_code = "Unbalanced group" => error_code' = "Unbalanced group"
       /\ (last'.op = "validate" /\ error_code = "Unbalanced group") =>
              last'.ret = "Unbalanced group"]_vars

\* validate() returns the error although a condition was added after the
\* end_group() that recorded it
C18_Witness ==
    /\ last.op = "validate" /\ last.ret = "Unbalanced group"
    /\ built.op = "equal" /\ ~built.thrown /\ built.error = "Unbalanced group"
    /\ has_conditions(Q)

\* C19: while a group() or a Not() is open (depth greater than 1) validate()
\* returns a non-empty string and find_all() does not return a result.
C19_OpenGroupReported ==
    Depth > 1 =>
        /\ last.op = "validate" => last.ret # ""
        /\ last.op # "find_all"

\* C21: operator! on a query without conditions throws and returns no query,
\* on a query with conditions it returns a query whose root is a NotNode over
\* the operand's tree, and no tree the builder makes holds a NotNode over
\* nothing.
C21_NegationOfNothing ==
    /\ last.op = "operator!" =>
           /\ last.thrown <=> ~has_conditions(Q)
           /\ last.thrown => last.ret = NoQuery
           /\ ~last.thrown =>
                  /\ Len(last.ret.m_groups) = 1
                  /\ root_node(last.ret) = <<[kind |-> "NotNode", m_condition |-> root_node(Q)]>>
    /\ \A g \in 1..Depth : ~HasNullNot(m_groups[g].m_root_node)

\* the type of a column and the types a builder argument is compatible with
ColumnType(col) == IF col = "s" THEN "String" ELSE "Int"
Incompatible(col, v) == \E i \in 1..Len(v) : v[i].type # ColumnType(col)

\* C20: a comparison builder called with a value whose type is incompatible
\* with the column throws at the call, for every value, and adds no node.
C20_TypeMismatchAtCall ==
    (/\ built.op \in {"equal", "less", "less_equal", "greater", "greater_equal", "between"}
     /\ Incompatible(built.col, built.v)) =>
        /\ built.thrown
        /\ GroupsObjectCount(m_groups) = built.objects

\* C32: a builder call that throws (the type of the value does not fit the
\* column) leaves the query as it was before the call: the same group stack
\* with the same trees, states and pending negations, and the same recorded
\* error; also between, which opens a group before it adds its conditions.
C32_FailedCallLeavesQuery ==
    [][(built'.op \notin {"none", "aborted"} /\ built'.thrown) =>
           m_groups' = m_groups /\ error_code' = error_code]_vars

-----------------------------------------------------------------------------
(* A NotNode probed with any sequence of ranges within one cluster; heap    *)
(* holds the initialised node with its known-range cache                    *)

NotRows == 4          \* rows of the cluster the NotNode is probed on

NotCells == {<<0, 0, "x">>, <<1, 0, "x">>}
\* the cluster holding all the rows
WholeCluster == [first |-> 0, n |-> Len(rows)]
\* not (a > 0)
NotGreater == <<NotNode(<<IntegerNode("Greater", "a", 0)>>)>>

InitNot ==
    /\ rows \in {MkRows(c) : c \in SeqsUpTo(NotCells, NotRows)}
    /\ indexed = FALSE
    /\ m_view = NoView
    /\ m_groups = <<[QueryGroup EXCEPT !.m_root_node = NotGreater]>>
    /\ error_code = ""
    /\ last = NoCall
    /\ opA = NoQuery /\ opB = NoQuery
    /\ lhs = NoResult /\ rhs = NoResult
    /\ built = NoBuild
    /\ heap = set_cluster(init(NotGreater, T))

\* node->find_first_local(start, end); last keeps the node before the call
\* and the handler that was selected
NotFindFirstLocal(start, end) ==
    /\ start <= end /\ end <= Len(rows)
    /\ LET f == NotNode_find_first_local(heap[1], start, end, WholeCluster, T)
       IN /\ last' = [op |-> "find_first_local", start |-> start, end |-> end,
                      ret |-> f.r, before |-> heap[1],
                      handler |-> NotNode_handler(heap[1], start, end)]
          /\ heap' = <<f.n>>
    /\ UNCHANGED <<rows, indexed, m_view, m_groups, error_code, algVars>>

\* the traversal enters the cluster anew: cluster_changed drops the cache
ClusterChanged ==
    /\ last # NoCall
    /\ heap' = set_cluster(heap)
    /\ last' = NoCall
    /\ UNCHANGED <<rows, indexed, m_view, m_groups, error_code, algVars>>

NextNot ==
    \/ \E start \in 0..NotRows, end \in 0..NotRows : NotFindFirstLocal(start, end)
    \/ ClusterChanged

SpecNot == InitNot /\ [][NextNot]_vars

-----------------------------------------------------------------------------
(* Properties of the NotNode cache, checked under SpecNot                   *)

\* the rows of [start, end) at which the wrapped condition does not match
NonMatches(start, end) == {r \in start..(end - 1) : ~(rows[r + 1].a > 0)}
\* what a scan of [start, end) row by row returns
ScanFirst(start, end) ==
    IF NonMatches(start, end) = {} THEN not_found
    ELSE CHOOSE r \in NonMatches(start, end) : \A x \in NonMatches(start, end) : r <= x

\* C24: every find_first_local(start, end) on the NotNode returns what the
\* row-by-row scan without a cache returns, whatever calls came before.
C24_CacheTransparency ==
    last.op = "find_first_local" => last.ret = ScanFirst(last.start, last.end)

\* C25: the known range is well-ordered and m_first_in_known_range is the
\* first row of it at which the NotNode matches (not_found when there is
\* none); the covered-by case leaves the cache as it was and the disjoint
\* case replaces it only by a strictly longer range.
C25_CacheInvariant ==
    LET n == heap[1]
    IN /\ n.m_known_range_start <= n.m_known_range_end
       /\ n.m_first_in_known_range = ScanFirst(n.m_known_range_start, n.m_known_range_end)
       /\ last.op = "find_first_local" =>
             LET before == <<last.before.m_known_range_start, last.before.m_known_range_end,
                             last.before.m_first_in_known_range>>
                 after == <<n.m_known_range_start, n.m_known_range_end,
                            n.m_first_in_known_range>>
             IN /\ last.handler = "covered_by_known" => after = before
                /\ (last.handler = "no_overlap" /\ after # before) =>
                       last.end - last.start > before[2] - before[1]

\* the disjoint case met a cache at least as long as the probed range and
\* kept it
C25_Witness ==
    /\ last.op = "find_first_local" /\ last.handler = "no_overlap"
    /\ last.end - last.start = 1
    /\ heap[1].m_known_range_end - heap[1].m_known_range_start = 2
    /\ heap[1].m_first_in_known_range # not_found
    /\ last.ret # not_found

\* C26: the handler that find_first_local selects is called with its own
\* assertion true.
C26_DispatchConsistent ==
    last.op = "find_first_local" =>
        handler_assertion(last.handler, last.before, last.start, last.end)

\* the lower overlap was selected on a cache that is not the initial one
C26_Witness ==
    /\ last.op = "find_first_local" /\ last.handler = "overlap_lower"
    /\ last.before.m_known_range_start > 0
    /\ last.start < last.before.m_known_range_start

-----------------------------------------------------------------------------
(* ParentNode::find_first and ParentNode::match called on the root of a     *)
(* query over a table of one cluster                                        *)

FindCells == {<<1, 0, "x">>, <<0, 0, "x">>, <<1, 0, "y">>}

InitFind ==
    /\ rows \in {MkRows(c) : c \in SeqsUpTo(FindCells, MaxRows)}
    /\ indexed \in BOOLEAN
    /\ m_view = NoView
    /\ m_groups = <<QueryGroup>>
    /\ error_code = ""
    /\ last = NoCall
    /\ opA = NoQuery /\ opB = NoQuery
    /\ lhs = NoResult /\ rhs = NoResult
    /\ built = NoBuild
    /\ heap = <<>>

\* root->find_first(start, end) after init() and set_cluster(cluster)
FindFirst(start, end) ==
    /\ last = NoCall
    /\ Depth = 1 /\ has_conditions(Q)
    /\ start <= Len(rows) /\ end <= Len(rows)
    /\ LET f == find_first(set_cluster(init(root_node(Q), T)), start, end, WholeCluster, T)
       IN last' = [op |-> "find_first", start |-> start, end |-> end,
                   ret |-> f.r, calls |-> f.calls]
    /\ UNCHANGED <<tableVars, m_view, m_groups, error_code, algVars>>

\* root->match(obj) for the object with the key `key`
Match(key) ==
    /\ last = NoCall
    /\ Depth = 1 /\ has_conditions(Q)
    /\ key \in {rows[i].key : i \in 1..Len(rows)}
    /\ last' = [op |-> "match", key |-> key, ret |-> match(init(root_node(Q), T), T, key).b]
    /\ UNCHANGED <<tableVars, m_view, m_groups, error_code, algVars>>

NextFind ==
    \/ EqualS("x")
    \/ GreaterA(0)
    \/ DoNot
    \/ \E start \in 0..MaxRows, end \in 0..MaxRows : FindFirst(start, end)
    \/ \E i \in 1..MaxRows : Match(KeyOf(i))
    \/ Discard

SpecFind == InitFind /\ [][NextFind]_vars

-----------------------------------------------------------------------------
(* Properties of find_first and match, checked under SpecFind               *)

\* the rows of [start, end) at which every condition of the root chain holds
AllHold(start, end) == {r \in start..(end - 1) : Satisfies(rows[r + 1], root_node(Q))}

\* C27: find_first(start, end) on the root of an AND-chain of k nodes returns
\* the smallest row of [start, end) at which all the nodes match, not_found
\* when there is none, after at most k calls of find_first_local for each row
\* it can stop at; match(obj) is true exactly when every condition holds at
\* the row of obj.
C27_FindFirstIsFirstCommonMatch ==
    /\ last.op = "find_first" =>
          /\ last.ret = IF AllHold(last.start, last.end) = {} THEN not_found
                        ELSE CHOOSE r \in AllHold(last.start, last.end) :
                                 \A x \in AllHold(last.start, last.end) : r <= x
          /\ last.start < last.end =>
                 last.calls <= Len(root_node(Q)) * (last.end - last.start + 1)
          /\ last.start >= last.end => last.calls = 0
    /\ last.op = "match" =>
          (last.ret <=> Satisfies(rows[RowOfKey(T, last.key) + 1], root_node(Q)))

\* two conditions that first agree on the third row, found there
C27_Witness ==
    /\ last.op = "find_first" /\ last.start = 0 /\ last.end = 3
    /\ Len(root_node(Q)) = 2
    /\ last.ret = 2
    /\ last.calls > 2

-----------------------------------------------------------------------------
(* Query::aggregate_internal called on the initialised root of a query, in  *)
(* one cluster, with the statistics of the nodes set by the caller          *)

PlanRows == 5         \* rows of the cluster the planner runs over

\* the ranges [start, end) the planner is run on: with and without rows
\* before and after the range, long enough for a probe window to end before
\* the range does, short, and empty
PlanRanges == {<<0, PlanRows>>, <<1, PlanRows>>, <<0, PlanRows - 1>>,
               <<1, PlanRows - 1>>, <<0, 2>>, <<2, 2>>}

\* m_dT and m_dD of a node: free to scan, an index node, a node that is
\* never given a probe turn
PlanStats == {[m_dT |-> 0, m_dD |-> <<100, 1>>],
              [m_dT |-> 10, m_dD |-> <<100, 1>>],
              [m_dT |-> 50, m_dD |-> <<0, 1>>]}

with_statistics(pn, stats) ==
    [k \in 1..Len(pn) |-> [pn[k] EXCEPT !.m_dT = stats[k].m_dT, !.m_dD = stats[k].m_dD]]

InitPlan ==
    /\ rows \in {MkRows(c) : c \in [1..PlanRows -> FindCells]}
    /\ indexed = FALSE
    /\ m_view = NoView
    /\ m_groups = <<QueryGroup>>
    /\ error_code = ""
    /\ last = NoCall
    /\ opA = NoQuery /\ opB = NoQuery
    /\ lhs = NoResult /\ rhs = NoResult
    /\ built = NoBuild
    /\ heap = <<>>

\* aggregate_internal(root, &st, start, end, nullptr) with a find-all state
\* that never asks to stop
AggregateInternal(stats, start, end) ==
    /\ last = NoCall
    /\ Depth = 1 /\ has_conditions(Q)
    /\ LET pn == with_statistics(set_cluster(init(root_node(Q), T)), stats)
           a == aggregate_internal(pn, QueryState("FindAll", npos), start, end,
                                   WholeCluster, T)
       IN last' = [op |-> "aggregate_internal", start |-> start, end |-> end,
                   best |-> find_best_node(pn), keys |-> a.st.keys,
                   count |-> a.st.m_match_count, log |-> a.log]
    /\ UNCHANGED <<tableVars, m_view, m_groups, error_code, algVars>>

NextPlan ==
    \/ EqualS("x")
    \/ GreaterA(0)
    \/ DoNot
    \/ \E stats \in [1..Len(root_node(Q)) -> PlanStats] :
          \E range \in PlanRanges : AggregateInternal(stats, range[1], range[2])
    \/ Discard

SpecPlan == InitPlan /\ [][NextPlan]_vars

-----------------------------------------------------------------------------
(* Properties of the planner, checked under SpecPlan                        *)

\* keys of the rows of [start, end) at which every condition holds, in row order
Expected(start, end) ==
    LET RECURSIVE Collect(_)
        Collect(r) == IF r >= end THEN <<>>
                      ELSE (IF Satisfies(rows[r + 1], root_node(Q))
                            THEN <<rows[r + 1].key>> ELSE <<>>) \o Collect(r + 1)
    IN Collect(start)

\* C23: whichever node drives a round and whatever the statistics are,
\* aggregate_internal(root, state, start, end) reports to the state exactly
\* the rows of [start, end) at which all the conditions hold, each once and
\* in increasing row order.
C23_ExactlyOnceDelivery ==
    last.op = "aggregate_internal" =>
        /\ last.keys = Expected(last.start, last.end)
        /\ last.count = Len(last.keys)

\* the turns of the log of the last call in which a sibling of the driving
\* node was considered for a probe turn
ProbeEntries == {i \in 1..Len(last.log) : last.log[i].node # last.log[i].best}

\* dT of the node c is less than the cost dT + dD of the node b
LessThanCostOf(stats, c, b) ==
    stats[c].m_dT * stats[b].m_dD[2] < stats[b].m_dT * stats[b].m_dD[2] + stats[b].m_dD[1]

\* C34: in each round of aggregate_internal a sibling c of the best node b is
\* given a probe turn exactly when c.dT is less than the cost of b; the probe
\* covers [start, min(start + bestdist, end)), or [start, end) when c.dT is 0,
\* and no sibling is considered once start has reached end.
C34_ProbeTurns ==
    last.op = "aggregate_internal" =>
        \A i \in ProbeEntries :
            LET e == last.log[i]
            IN /\ e.given <=> LessThanCostOf(e.stats, e.node, e.best)
               /\ e.start < last.end
               /\ e.given =>
                     e.end = IF e.stats[e.node].m_dT = 0 \/ e.start + bestdist > last.end
                             THEN last.end ELSE e.start + bestdist

\* C35: every aggregate_local(st, start0, end, ...) call that returns without
\* a stop request leaves dD = (r - start0) / (local_matches + 1.1) with a row
\* distance r - start0 between 0 and end - start0, also when the node
\* scanned to end without a further match.  m_dD is the fraction with the
\* numerator 10 * (r - start0).
C35_DistanceWithinRange ==
    last.op = "aggregate_internal" =>
        \A i \in 1..Len(last.log) :
            LET e == last.log[i]
            IN (e.given /\ e.ret # npos) =>
                   /\ 0 <= e.m_dD[1]
                   /\ e.m_dD[1] <= 10 * (e.end - e.start)

\* the turns of the log of the last call that were given to a node
GivenTurns == {i \in 1..Len(last.log) : last.log[i].given}

\* the rounds of the last call: the turns of the driving node
Rounds == {i \in 1..Len(last.log) : last.log[i].node = last.log[i].best}

\* C38: aggregate_internal terminates on every finite range: each
\* aggregate_local call on a non-empty range returns the stop sentinel or a
\* position greater than the start it was given and at most its end, so
\* that there are at most end - start rounds and the last turn ends at end,
\* whatever node is chosen as best.
C38_Terminates ==
    last.op = "aggregate_internal" =>
        /\ \A i \in GivenTurns :
              LET e == last.log[i]
              IN e.start < e.end =>
                    e.ret = npos \/ (e.start < e.ret /\ e.ret <= e.end)
        /\ last.start < last.end =>
              /\ Cardinality(Rounds) <= last.end - last.start
              /\ last.log # <<>>
              /\ \E i \in GivenTurns :
                    /\ \A j \in GivenTurns : j <= i
                    /\ last.log[i].ret \in {last.end, npos}

\* a range is finished in rounds driven by different nodes, one of them
\* stopped by its local limit before the end of the range, with a probe
\* turn that ended before the end of its window
C38_Witness ==
    /\ last.op = "aggregate_internal"
    /\ \E i \in Rounds, j \in Rounds : last.log[i].best # last.log[j].best
    /\ \E i \in Rounds : last.log[i].ret < last.log[i].end
    /\ \E i \in GivenTurns \ Rounds :
          /\ last.log[i].start < last.log[i].ret
          /\ last.log[i].ret < last.log[i].end

\* two matching rows delivered over the whole cluster with a driving node
\* that is not the first one
C23_Witness ==
    /\ last.op = "aggregate_internal" /\ last.start = 0 /\ last.end = PlanRows
    /\ Len(root_node(Q)) >= 2 /\ last.best # 1
    /\ Len(last.keys) = 2

-----------------------------------------------------------------------------
(* Sequences of condition, Or(), Not(), group() and end_group() calls on    *)
(* one query, with the calls made and the group stack before each of them   *)
(* kept in built                                                            *)

MaxCalls == 7         \* builder calls made on the query

\* the conditions A, B, C, D, E, added in this order
TermConds == <<<<"Equal", "a">>, <<"Greater", "a">>, <<"Less", "a">>,
               <<"Equal", "n">>, <<"Greater", "n">>>>
TermNode(i) == <<IntegerNode(TermConds[i][1], TermConds[i][2], 0)>>

NoCalls == [op |-> "calls", calls |-> <<>>, trail |-> <<>>]

InitTerms ==
    /\ rows = MkRows(BuilderCells)
    /\ indexed = FALSE
    /\ m_view = NoView
    /\ m_groups = <<QueryGroup>>
    /\ error_code = ""
    /\ last = NoCall
    /\ opA = NoQuery /\ opB = NoQuery
    /\ lhs = NoResult /\ rhs = NoResult
    /\ built = NoCalls
    /\ heap = <<>>

\* the number of conditions among the calls made
CondsAdded == Len(SelectSeq(built.calls, LAMBDA c : c = "cond"))

\* a builder call returned: q is the query it leaves behind
TermCall(name, q) ==
    /\ built.op = "calls"
    /\ Len(built.calls) < MaxCalls
    /\ m_groups' = q.m_groups
    /\ error_code' = q.error_code
    /\ built' = [built EXCEPT !.calls = Append(@, name), !.trail = Append(@, m_groups)]
    /\ last' = NoCall
    /\ UNCHANGED <<tableVars, m_view, opA, opB, lhs, rhs>>

\* q.equal / q.greater / q.less (col, 0) for the next condition of TermConds
TermCondition ==
    /\ built.op = "calls"
    /\ CondsAdded < Len(TermConds)
    /\ TermCall("cond", add_condition(Q, TermConds[CondsAdded + 1][1],
                                      TermConds[CondsAdded + 1][2], IntVal(0)))
TermOr == ~OrOnMovedRoot /\ TermCall("Or", Or(Q))
\* q.Or() with undefined behaviour: the process does not go on
TermOrAborts ==
    /\ built.op = "calls"
    /\ Len(built.calls) < MaxCalls
    /\ OrOnMovedRoot
    /\ built' = Aborted
    /\ UNCHANGED <<tableVars, m_view, m_groups, error_code, last, opA, opB, lhs, rhs>>
TermNot == TermCall("Not", Not(Q))
TermGroup == TermCall("group", group(Q))
TermEndGroup == TermCall("end_group", end_group(Q))
\* q.validate()
TermValidate ==
    /\ built.op = "calls"
    /\ last = NoCall
    /\ last' = [op |-> "validate", ret |-> validate(Q)]
    /\ UNCHANGED <<tableVars, m_view, m_groups, error_code, algVars>>

NextTerms ==
    \/ TermCondition
    \/ TermOr
    \/ TermOrAborts
    \/ TermNot
    \/ TermGroup
    \/ TermEndGroup
    \/ TermValidate

SpecTerms == InitTerms /\ [][NextTerms]_vars

-----------------------------------------------------------------------------
(* Properties of the group state machine, checked under SpecTerms           *)

\* the group g after the chain `node` was attached to it in its state
Attached(g, node) ==
    CASE g.m_state = "Default" ->
             [g EXCEPT !.m_root_node = @ \o node]
      [] g.m_state = "OrCondition" ->
             [g EXCEPT !.m_root_node[1].m_conditions = Append(@, node),
                       !.m_state = "OrConditionChildren"]
      [] g.m_state = "OrConditionChildren" ->
             [g EXCEPT !.m_root_node[1].m_conditions[Len(g.m_root_node[1].m_conditions)] =
                           @ \o node]

\* the step is the call `name`
IsCall(name) ==
    /\ built.op = "calls" /\ built'.op = "calls"
    /\ built'.calls = Append(built.calls, name)

\* C28: a condition added to a group in state Default becomes the root or is
\* appended to the root chain and the state stays Default; in state
\* OrCondition it becomes a new branch of the group's OrNode and the state
\* becomes OrConditionChildren; in state OrConditionChildren it is appended
\* to the last branch of the OrNode and the state stays; Or() in state
\* OrConditionChildren leaves the tree as it is and only sets the state to
\* OrCondition.  A; B; Or(); C; D; Or(); E builds the single OrNode with the
\* branches <A, B>, <C, D> and <E>.
C28_GroupStateMachine ==
    /\ [][/\ (IsCall("cond") /\ ~m_groups[Depth].m_pending_not) =>
                 m_groups' = [m_groups EXCEPT ![Depth] =
                                 Attached(@, TermNode(CondsAdded + 1))]
          /\ (IsCall("Or") /\ m_groups[Depth].m_state = "OrConditionChildren") =>
                 m_groups' = [m_groups EXCEPT ![Depth].m_state = "OrCondition"]]_vars
    /\ []((/\ built.op = "calls"
            /\ built.calls = <<"cond", "cond", "Or", "cond", "cond", "Or", "cond">>) =>
             m_groups = <<[m_root_node |->
                              <<[kind |-> "OrNode",
                                 m_conditions |-> <<TermNode(1) \o TermNode(2),
                                                    TermNode(3) \o TermNode(4),
                                                    TermNode(5)>>]>>,
                           m_pending_not |-> FALSE,
                           m_state |-> "OrConditionChildren"]>>)

\* A; B; Or(); C; D; Or(); E was called
C28_Witness ==
    /\ built.op = "calls"
    /\ built.calls = <<"cond", "cond", "Or", "cond", "cond", "Or", "cond">>
    /\ Len(m_groups[1].m_root_node) = 1

RECURSIVE Nested(_, _)
\* the term wrapped in k NotNodes
Nested(k, term) == IF k = 0 THEN term ELSE <<NotNode(Nested(k - 1, term))>>

\* the number of Not() calls made one after the other right before call j
RECURSIVE NotsBefore(_)
NotsBefore(j) ==
    IF j > 1 /\ built.calls[j - 1] = "Not" THEN 1 + NotsBefore(j - 1) ELSE 0

\* the group stack `before` with the chain `node` attached to its top group
AttachedToTop(before, node) ==
    [before EXCEPT ![Len(before)] = Attached(@, node)]

\* the last call is the end_group() that closes the group opened by call j
ClosesGroupOf(j) ==
    LET L == Len(built.calls)
    IN /\ built.calls[j] = "group" /\ built.calls[L] = "end_group"
       /\ Len(built.trail[L]) = Len(built.trail[j]) + 1
       /\ \A m \in (j + 1)..L : Len(built.trail[m]) > Len(built.trail[j])

\* C29: after k >= 1 Not() calls followed by one term, a single condition or
\* a group() ... end_group() block that holds a condition, the group stack is
\* the one before the first of the Not() calls with the term, wrapped in k
\* nested NotNodes, attached to its top group according to the state of that
\* group; nothing else of the stack changed and its depth is restored.
C29_NotWrapsOneTerm ==
    built.op = "calls" =>
        LET L == Len(built.calls)
        IN /\ (L > 1 /\ built.calls[L] = "cond" /\ NotsBefore(L) >= 1) =>
                  m_groups = AttachedToTop(built.trail[L - NotsBefore(L)],
                                           Nested(NotsBefore(L), TermNode(CondsAdded)))
           /\ \A j \in 1..(L - 1) :
                  (/\ ClosesGroupOf(j)
                   /\ NotsBefore(j) >= 1
                   /\ NodeCount(built.trail[L][Len(built.trail[L])].m_root_node) >= 1) =>
                      m_groups = AttachedToTop(
                                     built.trail[j - NotsBefore(j)],
                                     Nested(NotsBefore(j),
                                            built.trail[L][Len(built.trail[L])].m_root_node))

\* Not(); Not(); group(); A; Or(); B; end_group() built the OrNode of A and B
\* under two NotNodes
C29_Witness ==
    /\ built.op = "calls"
    /\ built.calls = <<"Not", "Not", "group", "cond", "Or", "cond", "end_group">>
    /\ m_groups = <<[m_root_node |->
                        Nested(2, <<[kind |-> "OrNode",
                                     m_conditions |-> <<TermNode(1), TermNode(2)>>]>>),
                     m_pending_not |-> FALSE, m_state |-> "Default"]>>

RECURSIVE ParseTerm(_, _), ParseTerms(_, _)
\* the position after the term that starts at position i of the calls cs - a
\* condition, a Not() with its term, a group with its end_group() around
\* terms joined by Or() - or 0 when no term starts there
ParseTerm(cs, i) ==
    IF i > Len(cs) THEN 0
    ELSE CASE cs[i] = "cond" -> i + 1
           [] cs[i] = "Not" -> ParseTerm(cs, i + 1)
           [] cs[i] = "group" ->
                  LET j == ParseTerms(cs, i + 1)
                  IN IF j # 0 /\ j <= Len(cs) /\ cs[j] = "end_group" THEN j + 1 ELSE 0
           [] OTHER -> 0
\* the position after the terms, joined by Or() or following each other,
\* that start at position i: the end of the calls or an end_group()
ParseTerms(cs, i) ==
    LET j == ParseTerm(cs, i)
    IN IF j = 0 THEN 0
       ELSE IF j > Len(cs) \/ cs[j] = "end_group" THEN j
       ELSE IF cs[j] = "Or" THEN ParseTerms(cs, j + 1)
       ELSE ParseTerms(cs, j)

\* the calls build a query without error: every group is closed and holds a
\* term, every Not() is followed by its term and every Or() stands between terms
BuiltWithoutError(cs) == cs = <<>> \/ ParseTerms(cs, 1) = Len(cs) + 1

\* an end_group() was called on the outermost frame
ErrorRecorded ==
    \E i \in 1..Len(built.calls) : built.calls[i] = "end_group" /\ Len(built.trail[i]) = 1

\* C39: validate() returns the recorded builder error if one was ever
\* recorded; otherwise "Syntax error" when the outermost group has no root
\* node; otherwise the validation result of the root node; and it returns the
\* empty string for every query that was built without error.
C39_ValidatePrecedence ==
    (built.op = "calls" /\ last.op = "validate") =>
        /\ ErrorRecorded => last.ret = "Unbalanced group"
        /\ (~ErrorRecorded /\ m_groups[1].m_root_node = NullNode) =>
              last.ret = "Syntax error"
        /\ (~ErrorRecorded /\ m_groups[1].m_root_node # NullNode) =>
              last.ret = node_validate(m_groups[1].m_root_node)
        /\ BuiltWithoutError(built.calls) => last.ret = ""

\* C39 (amended): the same precedence, and validate() returns the empty
\* string for every query holding at least one condition that was built
\* without error.
C39_ValidateWithCondition ==
    (built.op = "calls" /\ last.op = "validate") =>
        /\ ErrorRecorded => last.ret = "Unbalanced group"
        /\ (~ErrorRecorded /\ m_groups[1].m_root_node = NullNode) =>
              last.ret = "Syntax error"
        /\ (~ErrorRecorded /\ m_groups[1].m_root_node # NullNode) =>
              last.ret = node_validate(m_groups[1].m_root_node)
        /\ (built.calls # <<>> /\ BuiltWithoutError(built.calls)) => last.ret = ""

\* validate() is called on a query of several terms built without error
C39_Witness ==
    /\ built.op = "calls"
    /\ last.op = "validate"
    /\ built.calls = <<"cond", "Or", "Not", "group", "cond", "cond", "end_group">>
    /\ last.ret = ""

-----------------------------------------------------------------------------
(* A query built with tautological bounds next to the query built by the    *)
(* same calls with a condition that holds at every row in their place.      *)
(* m_groups, error_code is the first query, opA the second.                 *)

ElideCells == <<<<0, 0, "x">>, <<1, 0, "x">>, <<Null, 0, "x">>>>

InitElide ==
    /\ rows = MkRows(ElideCells)
    /\ indexed = FALSE
    /\ m_view = NoView
    /\ m_groups = <<QueryGroup>>
    /\ error_code = ""
    /\ last = NoCall
    /\ opA = NoQuery /\ opB = NoQuery
    /\ lhs = NoResult /\ rhs = NoResult
    /\ built = NoBuild
    /\ heap = <<>>

\* n > LLONG_MIN and n < LLONG_MAX hold at every row: no n of the table is
\* null or one of the two extremes
AlwaysTrueAbove(q) == greater(q, "n", IntVal(LLONG_MIN))
AlwaysTrueBelow(q) == less(q, "n", IntVal(LLONG_MAX))

\* the same builder call returned on both queries
ElideCall(op, q, ref) ==
    /\ built # Aborted
    /\ GroupsObjectCount(m_groups) < BuilderObjects
    /\ GroupsObjectCount(opA.m_groups) < BuilderObjects
    /\ m_groups' = q.m_groups
    /\ error_code' = q.error_code
    /\ opA' = ref
    /\ last' = NoCall
    /\ built' = [op |-> op]
    /\ UNCHANGED <<tableVars, m_view, opB, lhs, rhs>>

ElideCompare(cond) ==
    ElideCall("compare", add_condition(Q, cond, "a", IntVal(0)),
              add_condition(opA, cond, "a", IntVal(0)))
\* greater_equal(a, LLONG_MIN) here, an always-true condition there
ElideGreaterEqual ==
    ElideCall("greater_equal", greater_equal(Q, "a", LLONG_MIN), AlwaysTrueAbove(opA))
\* less_equal(a, LLONG_MAX) here, an always-true condition there
ElideLessEqual ==
    ElideCall("less_equal", less_equal(Q, "a", LLONG_MAX), AlwaysTrueBelow(opA))
\* between(a, LLONG_MIN, LLONG_MAX) here, an always-true condition there
ElideBetween ==
    /\ Depth <= MaxGroups
    /\ ElideCall("between", between(Q, "a", LLONG_MIN, LLONG_MAX), AlwaysTrueAbove(opA))
ElideNot ==
    /\ Depth < MaxGroups /\ Len(opA.m_groups) < MaxGroups
    /\ ElideCall("Not", Not(Q), Not(opA))
ElideOr ==
    /\ ~OrOnMovedRoot
    /\ opA.m_groups[Len(opA.m_groups)].m_state # "OrCondition"
    /\ ElideCall("Or", Or(Q), Or(opA))
\* q.Or() with undefined behaviour on either query: the process does not go on
ElideOrAborts ==
    /\ built # Aborted
    /\ OrOnMovedRoot \/ opA.m_groups[Len(opA.m_groups)].m_state = "OrCondition"
    /\ built' = Aborted
    /\ last' = NoCall
    /\ UNCHANGED <<tableVars, m_view, m_groups, error_code, opA, opB, lhs, rhs>>

\* find_all() of both queries, on trees that can be executed
ElideFindAll ==
    /\ built # Aborted
    /\ last = NoCall
    /\ ~HasNullNot(root_node(Q)) /\ ~HasNullNot(root_node(opA))
    /\ last' = [op |-> "find_all",
                ret |-> find_all(Q, T, 0, npos, npos),
                ref |-> find_all(opA, T, 0, npos, npos)]
    /\ UNCHANGED <<tableVars, m_view, m_groups, error_code, algVars>>

NextElide ==
    \/ \E cond \in {"Equal", "Greater"} : ElideCompare(cond)
    \/ ElideGreaterEqual
    \/ ElideLessEqual
    \/ ElideBetween
    \/ ElideNot
    \/ ElideOr
    \/ ElideOrAborts
    \/ ElideFindAll
    \/ Discard

SpecElide == InitElide /\ [][NextElide]_vars

-----------------------------------------------------------------------------
(* Properties of the elided bounds, checked under SpecElide                 *)

\* C30: a query built with tautological bounds (greater_equal(c, INT64_MIN),
\* less_equal(c, INT64_MAX), between(c, INT64_MIN, INT64_MAX)) returns the
\* same objects as the query built by the same calls with an always-true
\* condition in their place; the group stacks of the two have the same
\* depth and the same pending negations, and the current group waits for
\* the branch of an Or() only where that of the other query does, so that no
\* pending Or or Not is carried over to the next condition.
C30_ElisionTransparent ==
    /\ last.op = "find_all" => last.ret = last.ref
    /\ built # Aborted =>
          /\ Len(m_groups) = Len(opA.m_groups)
          /\ \A g \in 1..Len(m_groups) :
                m_groups[g].m_pending_not = opA.m_groups[g].m_pending_not
          /\ m_groups[Len(m_groups)].m_state = "OrCondition" =>
                opA.m_groups[Len(m_groups)].m_state = "OrCondition"

-----------------------------------------------------------------------------
(* The scan paths of count() and find_all() with a limit, over a table of   *)
(* several clusters, with the turns the planner takes                       *)

StopRows == 5         \* rows of the table the limited scans run over

StopLimits == {1, 2, npos}

InitStop ==
    /\ rows \in {MkRows(c) : c \in [1..StopRows -> FindCells]}
    /\ indexed = FALSE
    /\ m_view = NoView
    /\ m_groups = <<QueryGroup>>
    /\ error_code = ""
    /\ last = NoCall
    /\ opA = NoQuery /\ opB = NoQuery
    /\ lhs = NoResult /\ rhs = NoResult
    /\ built = NoBuild
    /\ heap = <<>>

\* q.count(limit) on the scan path
StopCount(limit) ==
    /\ last = NoCall
    /\ Depth = 1 /\ has_conditions(Q)
    /\ LET tr == do_count_trace(init(root_node(Q), T), QueryState("Count", limit), T)
       IN last' = [op |-> "count", limit |-> limit, log |-> tr.log,
                   visited |-> tr.visited, count |-> tr.st.m_match_count]
    /\ UNCHANGED <<tableVars, m_view, m_groups, error_code, algVars>>

\* q.find_all(begin, npos, limit) on the scan path
StopFindAll(begin, limit) ==
    /\ last = NoCall
    /\ Depth = 1 /\ has_conditions(Q)
    /\ LET tr == find_all_trace(init(root_node(Q), T), QueryState("FindAll", limit), T,
                                begin, TableSize(T))
       IN last' = [op |-> "find_all", limit |-> limit, log |-> tr.log,
                   visited |-> tr.visited, count |-> tr.st.m_match_count]
    /\ UNCHANGED <<tableVars, m_view, m_groups, error_code, algVars>>

NextStop ==
    \/ EqualS("x")
    \/ GreaterA(0)
    \/ DoNot
    \/ \E limit \in StopLimits : StopCount(limit)
    \/ \E begin \in {0, 1}, limit \in StopLimits : StopFindAll(begin, limit)
    \/ Discard

SpecStop == InitStop /\ [][NextStop]_vars

-----------------------------------------------------------------------------
(* Properties of the limited scans, checked under SpecStop                  *)

\* the turns of the last call in which state.match returned false
StopTurns == {i \in 1..Len(last.log) : last.log[i].given /\ last.log[i].ret = npos}

\* C36: once state.match has returned false during find_all or count, no
\* further state.match call is made in that execution: the turn in which it
\* happened returns the stop sentinel and is the last turn of the last
\* cluster visited, and the number of matches reported never exceeds the
\* limit; match returns false as soon as the limit is reached.
C36_EarlyStop ==
    last.op \in {"count", "find_all"} =>
        /\ \A i \in StopTurns :
              /\ i = Len(last.log)
              /\ last.visited = last.log[i].cluster
              /\ last.log[i].matches = last.limit
        /\ \A i \in 1..Len(last.log) : last.log[i].matches <= last.limit
        /\ last.count <= last.limit
        /\ last.count = last.limit => StopTurns # {}

\* a scan is stopped by its limit in the first of three clusters, with
\* rows that match in the clusters that follow
C36_Witness ==
    /\ last.op = "count"
    /\ last.limit = 1
    /\ StopTurns # {}
    /\ last.visited = 1
    /\ Len(Clusters(T)) = 3
    /\ \E r \in 3..StopRows : Satisfies(rows[r], root_node(Q))

-----------------------------------------------------------------------------
(* StringNodeEqualBase::find_first_local on a node with a search index,     *)
(* called any number of times on the clusters of a table, in any order      *)

IndexRows == 5        \* rows of the indexed table at most

IndexCells == {<<0, 0, "x">>, <<0, 0, "y">>}

\* the node for s = "x" after init()
IndexNode == init(<<StringNodeEqual("x")>>, T)[1]

InitIndex ==
    /\ rows \in {MkRows(c) : c \in SeqsUpTo(IndexCells, IndexRows)}
    /\ indexed = TRUE
    /\ m_view = NoView
    /\ m_groups = <<QueryGroup>>
    /\ error_code = ""
    /\ last = NoCall
    /\ opA = NoQuery /\ opB = NoQuery
    /\ lhs = NoResult /\ rhs = NoResult
    /\ built = [op |-> "node", n |-> init(<<StringNodeEqual("x")>>, Table(rows, TRUE))[1]]
    /\ heap = <<>>

\* node->set_cluster(cluster ci); node->find_first_local(start, end)
IndexFindFirst(ci, start, end) ==
    /\ ci \in 1..Len(Clusters(T))
    /\ start <= Clusters(T)[ci].n /\ end <= Clusters(T)[ci].n
    /\ LET f == StringNodeEqualBase_find_first_local(built.n, start, end, Clusters(T)[ci], T)
       IN /\ last' = [op |-> "find_first_local", cluster |-> ci, start |-> start,
                      end |-> end, r |-> f.r, before |-> built.n]
          /\ built' = [built EXCEPT !.n = f.n]
    /\ UNCHANGED <<tableVars, m_view, m_groups, error_code, opA, opB, lhs, rhs>>

\* init() is called again: the cursor is set up anew
IndexInit ==
    /\ last # NoCall
    /\ last' = NoCall
    /\ built' = [built EXCEPT !.n = IndexNode]
    /\ UNCHANGED <<tableVars, m_view, m_groups, error_code, opA, opB, lhs, rhs>>

NextIndex ==
    \/ \E ci \in 1..IndexRows, start \in 0..ClusterSize, end \in 0..ClusterSize :
          IndexFindFirst(ci, start, end)
    \/ IndexInit

SpecIndex == InitIndex /\ [][NextIndex]_vars

-----------------------------------------------------------------------------
(* Properties of the indexed equality node, checked under SpecIndex         *)

\* the linear scan of the cluster of the last call for the needle
LinearScan ==
    LeafFindFirst(StringNodeEqual("x"), last.start, last.end, Clusters(T)[last.cluster], T)

\* the last call started at a key below that of the call before it
Restarted ==
    /\ last.start < last.end
    /\ get_real_key(T, Clusters(T)[last.cluster], last.start) < last.before.m_last_start_key

\* C37: given the index result list sorted by ObjKey, find_first_local(start,
\* end) on the indexed equality node returns the same row as a linear scan
\* of the cluster for the needle in [start, end), or not_found, after every
\* sequence of earlier calls - a call that starts at a lower key than the
\* one before, calls after the cursor was exhausted, an empty result list -
\* and the row returned lies in [start, end).
C37_IndexedFindFirstLocal ==
    last.op = "find_first_local" =>
        /\ last.r = LinearScan
        /\ last.r # not_found => last.start <= last.r /\ last.r < last.end

\* a call that starts below the call before it, after the cursor was
\* exhausted, finds a row that is not the first result
C37_Witness ==
    /\ last.op = "find_first_local"
    /\ Restarted
    /\ last.before.m_results_ndx = last.before.m_results_end
    /\ last.r # not_found
    /\ get_real_key(T, Clusters(T)[last.cluster], last.r) # last.before.m_index_matches[1]

-----------------------------------------------------------------------------
(* The header parser of the apply-to-state command: parse_header_line on    *)
(* a line of characters, for headers of integer and string fields           *)

MaxLine == 4          \* characters of the input at most

\* a digit, a letter, the field separator and the end delimiter
HeaderChars == {"1", "a", " ", "\n"}
end_delim == "\n"
isspace(c) == c \in {" ", "\n"}
isdigit(c) == c = "1"

\* the fields expected: the types of the arguments of parse_header_line
HeaderFields == {<<"int">>, <<"int", "int">>, <<"str", "int">>}

\* the characters of sv from position i on
Suffix(sv, i) == SubSeq(sv, i, Len(sv))

\* the length of the longest prefix of sv whose characters satisfy Test
PrefixLen(sv, Test(_)) ==
    IF \E i \in 1..Len(sv) : ~Test(sv[i])
    THEN (CHOOSE i \in 1..Len(sv) : ~Test(sv[i]) /\ \A j \in 1..(i - 1) : Test(sv[j])) - 1
    ELSE Len(sv)

\* parse_header_value for an integral argument: std::from_chars never
\* returns a null ptr; without a digit ptr is the start of sv and the
\* argument is not assigned
parse_header_value_integral(sv) ==
    LET n == PrefixLen(sv, isdigit)
    IN [sv |-> Suffix(sv, n + 1), ok |-> TRUE,
        arg |-> IF n = 0 THEN "unassigned" ELSE "assigned"]

\* parse_header_value for a std::string_view argument
parse_header_value_string(sv) ==
    LET n == PrefixLen(sv, LAMBDA c : ~isspace(c))
    IN IF n = Len(sv) THEN [sv |-> <<>>, ok |-> FALSE, arg |-> "unassigned"]
       ELSE [sv |-> Suffix(sv, n + 1), ok |-> TRUE, arg |-> "assigned"]

parse_header_value(sv, type) ==
    IF type = "int" THEN parse_header_value_integral(sv)
    ELSE parse_header_value_string(sv)

RECURSIVE parse_header_element(_, _, _)
\* parse_header_element(sv, end_delim, cur_arg, next_args...): sv is what
\* remains, args what became of the arguments; front_of_empty is TRUE when
\* sv.front() is evaluated on an empty view, after which sv, ok and args
\* are those up to that point
parse_header_element(sv, fields, args) ==
    IF fields = <<>> THEN [sv |-> sv, ok |-> TRUE, args |-> args, front_of_empty |-> FALSE]
    ELSE IF sv = <<>>
    THEN [sv |-> <<>>, ok |-> FALSE, args |-> args, front_of_empty |-> FALSE]
    ELSE LET v == parse_header_value(sv, Head(fields))
             args1 == Append(args, v.arg)
         IN IF ~v.ok
            THEN [sv |-> <<>>, ok |-> FALSE, args |-> args1, front_of_empty |-> FALSE]
            ELSE IF v.sv = <<>>
            THEN [sv |-> <<>>, ok |-> FALSE, args |-> args1, front_of_empty |-> TRUE]
            ELSE IF Head(v.sv) = " "
            THEN parse_header_element(Tail(v.sv), Tail(fields), args1)
            ELSE IF Head(v.sv) = end_delim
            THEN [sv |-> Tail(v.sv), ok |-> TRUE, args |-> args1, front_of_empty |-> FALSE]
            ELSE [sv |-> <<>>, ok |-> FALSE, args |-> args1, front_of_empty |-> FALSE]

\* parse_header_line(sv, end_delim, args...)
parse_header_line(sv, fields) == parse_header_element(sv, fields, <<>>)

InitHeader ==
    /\ rows = <<>>
    /\ indexed = FALSE
    /\ m_view = NoView
    /\ m_groups = <<QueryGroup>>
    /\ error_code = ""
    /\ last = NoCall
    /\ opA = NoQuery /\ opB = NoQuery
    /\ lhs = NoResult /\ rhs = NoResult
    /\ built \in {[op |-> "header", line |-> l, fields |-> f] :
                     l \in SeqsUpTo(HeaderChars, MaxLine), f \in HeaderFields}
    /\ heap = <<>>

\* parse_header_line(line, '\n', args...) returns
ParseHeaderLine ==
    /\ last = NoCall
    /\ LET p == parse_header_line(built.line, built.fields)
       IN /\ ~p.front_of_empty
          /\ last' = [op |-> "parse_header_line", ok |-> p.ok, sv |-> p.sv,
                      args |-> p.args, front_of_empty |-> FALSE]
    /\ UNCHANGED <<tableVars, m_view, m_groups, error_code, opA, opB, lhs, rhs, built>>

\* parse_header_line evaluates sv.front() on an empty view: the behaviour is
\* undefined; the call returns true, returns false or does not return
ParseHeaderLineUndefined ==
    /\ last = NoCall
    /\ LET p == parse_header_line(built.line, built.fields)
       IN /\ p.front_of_empty
          /\ \E outcome \in {"true", "false", "crash"} :
                last' = [op |-> IF outcome = "crash" THEN "crashed" ELSE "parse_header_line",
                         ok |-> (outcome = "true"), sv |-> <<>>,
                         args |-> p.args, front_of_empty |-> TRUE]
    /\ UNCHANGED <<tableVars, m_view, m_groups, error_code, opA, opB, lhs, rhs, built>>

NextHeader ==
    \/ ParseHeaderLine
    \/ ParseHeaderLineUndefined

SpecHeader == InitHeader /\ [][NextHeader]_vars

-----------------------------------------------------------------------------
(* Properties of the header parser, checked under SpecHeader                *)

\* a well-formed value of the type: digits, or characters other than spaces;
\* at least one of them
WellFormedValue(v, type) ==
    /\ v # <<>>
    /\ \A i \in 1..Len(v) : IF type = "int" THEN isdigit(v[i]) ELSE ~isspace(v[i])

RECURSIVE IsHeader(_, _)
\* sv starts with one well-formed value for each of the fields, separated by
\* single spaces, the last one followed by the end delimiter
IsHeader(sv, fields) ==
    \E n \in 1..Len(sv) :
        /\ WellFormedValue(SubSeq(sv, 1, n), Head(fields))
        /\ n < Len(sv)
        /\ IF Len(fields) = 1 THEN sv[n + 1] = end_delim
           ELSE sv[n + 1] = " " /\ IsHeader(Suffix(sv, n + 2), Tail(fields))

\* C40: parse_header_line accepts a header exactly if it consists of one
\* well-formed value for each expected field, separated by single spaces
\* and the last one followed by the end delimiter; a line with fewer or
\* more fields, an empty or non-numeric integer field or input that ends
\* before the delimiter is rejected, and the parser never reads the front
\* of an empty input.
C40_HeaderAccepted ==
    last.op \in {"parse_header_line", "crashed"} =>
        /\ ~last.front_of_empty
        /\ last.ok <=> IsHeader(built.line, built.fields)

\* every header of well-formed values is accepted with every argument
\* assigned and the rest of the input returned
AuxC40_HeadersAccepted ==
    (last.op = "parse_header_line" /\ IsHeader(built.line, built.fields)) =>
        /\ last.ok
        /\ \A i \in 1..Len(last.args) : last.args[i] = "assigned"
        /\ Len(last.args) = Len(built.fields)

\* a line that is rejected is not a header
AuxC40_RejectedIsNoHeader ==
    (last.op = "parse_header_line" /\ ~last.front_of_empty /\ ~last.ok) =>
        ~IsHeader(built.line, built.fields)

====
